---------------------------- MODULE Spec2Model ----------------------------
(***************************************************************************)
(* A state-machine model of the portfolio page: the page-level coordinator *)
(* (Home, src/app/page.tsx), the theme toggle (ThemeToggle.tsx), the theme *)
(* initialization script of the root layout and the diagram renderer       *)
(* (SystemDiagram.tsx).                                                    *)
(***************************************************************************)
EXTENDS Naturals, Sequences, FiniteSets, TLC

(***************************************************************************)
(* JavaScript values.  An optional value (T | null, T | undefined) is a    *)
(* sequence of length at most one: <<>> is null / undefined, <<v>> is v.   *)
(***************************************************************************)
Null == <<>>

Some(v) == <<v>>

\* JavaScript truthiness of an optional string: undefined and "" are falsy.
Truthy(m) == m # Null /\ m[1] # ""

(***************************************************************************)
(* Strings.  A string whose characters the program inspects is handled as  *)
(* its sequence of one-character strings.                                  *)
(***************************************************************************)
UpperCase ==
    <<"A", "B", "C", "D", "E", "F", "G", "H", "I", "J", "K", "L", "M",
      "N", "O", "P", "Q", "R", "S", "T", "U", "V", "W", "X", "Y", "Z">>

LowerCase ==
    <<"a", "b", "c", "d", "e", "f", "g", "h", "i", "j", "k", "l", "m",
      "n", "o", "p", "q", "r", "s", "t", "u", "v", "w", "x", "y", "z">>

\* The characters the regular expression class \s matches (those used here).
WhiteSpace == {" ", "\t", "\n"}

RECURSIVE Join(_)
Join(cs) == IF cs = <<>> THEN "" ELSE Head(cs) \o Join(Tail(cs))

LowerChar(c) ==
    IF \E i \in 1..Len(UpperCase) : UpperCase[i] = c
    THEN LowerCase[CHOOSE i \in 1..Len(UpperCase) : UpperCase[i] = c]
    ELSE c

\* String.prototype.toLowerCase
toLowerCase(cs) == [i \in 1..Len(cs) |-> LowerChar(cs[i])]

RECURSIVE SkipWhiteSpace(_)
SkipWhiteSpace(cs) ==
    IF cs # <<>> /\ Head(cs) \in WhiteSpace THEN SkipWhiteSpace(Tail(cs)) ELSE cs

\* String.prototype.replace(/\s+/g, "-"): every maximal run of white space
\* becomes one hyphen.
RECURSIVE ReplaceWhiteSpaceRuns(_)
ReplaceWhiteSpaceRuns(cs) ==
    IF cs = <<>> THEN <<>>
    ELSE IF Head(cs) \in WhiteSpace
         THEN <<"-">> \o ReplaceWhiteSpaceRuns(SkipWhiteSpace(Tail(cs)))
         ELSE <<Head(cs)>> \o ReplaceWhiteSpaceRuns(Tail(cs))

(***************************************************************************)
(* The diagram renderer.  An SVG element is a record of its tag, its       *)
(* attributes (name/value pairs in document order), its text (pieces, the  *)
(* characters & < > standing alone) and its child elements.                *)
(***************************************************************************)
FILTER_ID == "rough-paper"

SvgNamespace == "http://www.w3.org/2000/svg"

El(tag, attrs, text, kids) ==
    [tag |-> tag, attrs |-> attrs, text |-> text, kids |-> kids]

NoSub == ""

RoughFilter ==
    El("defs", <<>>, <<>>,
       << El("filter", << <<"id", FILTER_ID>> >>, <<>>,
             << El("feTurbulence", << <<"result", "noise">> >>, <<>>, <<>>),
                El("feDisplacementMap", << <<"in2", "noise">> >>, <<>>, <<>>) >>),
          El("marker", << <<"id", "arrowhead">> >>, <<>>,
             << El("polygon", << <<"points", "0 0, 10 3.5, 0 7">> >>, <<>>, <<>>) >>) >>)

\* A text node among the children of an element: JSX keeps the blank
\* between an element and a {/* comment */} on the same line as " ".
TextNode(data) == El("#text", <<>>, <<data>>, <<>>)

TextEl(x, y, pieces) == El("text", << <<"x", x>>, <<"y", y>> >>, pieces, <<>>)

\* The text React writes for the JavaScript number halves / 2: division by
\* "/" is not rounded, so an odd number of halves gives a ".5".
HalvesToString(halves) ==
    IF halves % 2 = 0 THEN ToString(halves \div 2)
    ELSE IF halves > 0 THEN ToString((halves - 1) \div 2) \o ".5"
    ELSE "-" \o ToString((0 - halves - 1) \div 2) \o ".5"

Box(x, y, width, height, label, sub) ==
    El("g", << <<"filter", "url(#" \o FILTER_ID \o ")">> >>, <<>>,
       << El("rect", << <<"x", ToString(x)>>, <<"y", ToString(y)>>,
                        <<"width", ToString(width)>>,
                        <<"height", ToString(height)>> >>, <<>>, <<>>),
          TextEl(HalvesToString(2 * x + width),
                 HalvesToString(2 * y + height - 10), <<label>>) >>
       \o (IF sub # NoSub
           THEN << TextEl(HalvesToString(2 * x + width),
                          HalvesToString(2 * y + height + 20), <<sub>>) >>
           ELSE <<>>))

Arrow(d) ==
    El("path", << <<"d", d>>, <<"marker-end", "url(#arrowhead)">>,
                  <<"filter", "url(#" \o FILTER_ID \o ")">> >>, <<>>, <<>>)

Database(x, y, label) ==
    El("g", << <<"filter", "url(#" \o FILTER_ID \o ")">> >>, <<>>,
       << El("path",
             << <<"d", "M" \o ToString(x) \o "," \o ToString(y + 10)
                       \o " v30 c0,5 30,5 30,0 v-30 M" \o ToString(x) \o ","
                       \o ToString(y + 10)
                       \o " c0,-5 30,-5 30,0 c0,5 -30,5 -30,0">> >>,
             <<>>, <<>>),
          TextEl(ToString(x + 15), ToString(y + 60), <<label>>) >>)

Polygon(points) ==
    El("polygon", << <<"points", points>>,
                     <<"filter", "url(#" \o FILTER_ID \o ")">> >>, <<>>, <<>>)

Group(transform, kids) == El("g", << <<"transform", transform>> >>, <<>>, kids)

DiagramTypes == {"cache", "microservices", "cli", "logs", "auth", "pydown", "default"}

\* renderDiagram, case "cache" (SystemDiagram.tsx 128-167)
Diagram_cache ==
    << TextEl("50%", "20", <<"Read-Through Cache Pattern">>),
       Box(50, 100, 80, 50, "Client", NoSub),
       Box(180, 100, 40, 150, "LB", NoSub),
       Box(270, 60, 80, 40, "API 1", NoSub),
       Box(270, 125, 80, 40, "API 2", NoSub),
       Box(270, 190, 80, 40, "API 3", NoSub),
       Box(400, 60, 60, 170, "Redis", "Cluster"),
       Database(520, 110, "Postgres"),
       Arrow("M130,125 L180,125"),
       Arrow("M220,120 L270,80"),
       Arrow("M220,130 L270,145"),
       Arrow("M220,140 L270,210"),
       Arrow("M350,80 L400,100"),
       Arrow("M350,145 L400,145"),
       Arrow("M350,210 L400,190"),
       Arrow("M460,145 L520,135") >>

\* renderDiagram, case "microservices" (SystemDiagram.tsx 168-193)
Diagram_microservices ==
    << TextEl("50%", "20", <<"Event-Driven Architecture">>),
       Box(20, 100, 70, 40, "Order", "Service"),
       Box(140, 80, 80, 80, "RabbitMQ", "Exchange"),
       Box(280, 40, 80, 40, "Inventory", "Service"),
       Box(280, 100, 80, 40, "Payment", "Service"),
       Box(280, 160, 80, 40, "Notif.", "Service"),
       Database(400, 30, "Inv DB"),
       Database(400, 150, "User DB"),
       Arrow("M90,120 L140,120"),
       TextNode(" "),
       Arrow("M220,100 L280,60"),
       TextNode(" "),
       Arrow("M220,120 L280,120"),
       TextNode(" "),
       Arrow("M220,140 L280,180"),
       TextNode(" "),
       Arrow("M360,60 L400,50") >>

\* renderDiagram, case "cli" (SystemDiagram.tsx 194-211)
Diagram_cli ==
    << TextEl("50%", "20", <<"Local-First Sync Architecture">>),
       Box(50, 100, 80, 50, "TUI", "Interface"),
       Box(200, 80, 100, 90, "Core Logic", "Rust"),
       Database(380, 60, "SQLite"),
       Box(380, 150, 60, 40, "Git", "Process"),
       Box(500, 140, 60, 60, "Remote", "Repo"),
       Arrow("M130,125 L200,125"),
       Arrow("M300,100 L380,80"),
       Arrow("M300,150 L380,170"),
       Arrow("M440,170 L500,170") >>

\* renderDiagram, case "pydown" (SystemDiagram.tsx 212-268)
Diagram_pydown ==
    << TextEl("50%", "20", <<"PyDown CLI Architecture">>),
       Box(10, 100, 60, 50, "User", "Terminal"),
       Box(100, 90, 80, 70, "PyDown", "Orchestrator"),
       Box(100, 20, 80, 40, "FZF", "Interactive UI"),
       Box(240, 90, 80, 70, "YT-DLP", "Core Engine"),
       Box(400, 20, 80, 50, "YouTube", "CDN / API"),
       Group("translate(400, 105)", <<Polygon("0,20 20,0 40,20 20,40"), TextEl("20", "24", <<"Mode">>)>>),
       Box(500, 80, 70, 40, "MPV/VLC", "Player"),
       Database(510, 160, "Disk"),
       Arrow("M70,125 L100,125"),
       Arrow("M140,90 L140,60"),
       Arrow("M140,60 L140,90"),
       TextEl("145", "80", <<"Selection">>),
       Arrow("M180,125 L240,125"),
       TextEl("210", "120", <<"Exec Params">>),
       Arrow("M280,90 L320,50 L400,50"),
       TextNode(" "),
       TextEl("340", "45", <<"Request">>),
       Arrow("M440,70 L440,100 L320,100"),
       TextNode(" "),
       TextEl("380", "95", <<"Stream Data">>),
       Arrow("M320,125 L400,125"),
       Arrow("M420,105 L460,100 L500,100"),
       TextEl("460", "95", <<"Pipe (Stdout)">>),
       Arrow("M420,145 L460,170 L510,170"),
       TextEl("450", "165", <<"Write File">>),
       TextEl("450", "175", <<"(Fmt + Subs)">>) >>

\* renderDiagram, case "logs" (SystemDiagram.tsx 269-286)
Diagram_logs ==
    << TextEl("50%", "20", <<"Async Log Ingestion Flow">>),
       Box(20, 100, 70, 50, "Apps", "Log Sources"),
       Box(130, 80, 100, 90, "Kafka", "Message Bus"),
       Box(270, 80, 100, 90, "Elixir", "Ingestor"),
       Database(420, 90, "Elastic"),
       Box(530, 100, 60, 50, "Search", "API"),
       Arrow("M90,125 L130,125"),
       Arrow("M230,125 L270,125"),
       Arrow("M370,125 L420,125"),
       Arrow("M480,125 L530,125") >>

\* renderDiagram, case "auth" (SystemDiagram.tsx 287-303)
Diagram_auth ==
    << TextEl("50%", "20", <<"Identity ", "&", " Auth Flow">>),
       Box(30, 100, 70, 50, "User", "Client"),
       Box(150, 80, 120, 100, "Go Auth", "Service"),
       Database(330, 60, "Redis"),
       Box(450, 100, 100, 60, "OAuth", "Github/Google"),
       Arrow("M100,125 L150,125"),
       Arrow("M270,100 L330,85"),
       Arrow("M270,140 L450,140"),
       TextEl("360", "145", <<"Redirect/Callback">>) >>

\* renderDiagram, case "default" (SystemDiagram.tsx 304-310)
Diagram_default ==
    << TextEl("50%", "50%", <<"[System Diagram Not Available]">>) >>

\* Mutant: the switch has no case for "logs".
renderDiagram_NoLogsCase(type) ==
    CASE type = "cache" -> Diagram_cache
      [] type = "microservices" -> Diagram_microservices
      [] type = "cli" -> Diagram_cli
      [] type = "pydown" -> Diagram_pydown
      [] type = "auth" -> Diagram_auth
      [] OTHER -> Diagram_default

\* renderDiagram: the switch on the diagram type.
renderDiagram(type) ==
    CASE type = "cache" -> Diagram_cache
      [] type = "microservices" -> Diagram_microservices
      [] type = "cli" -> Diagram_cli
      [] type = "pydown" -> Diagram_pydown
      [] type = "logs" -> Diagram_logs
      [] type = "auth" -> Diagram_auth
      [] OTHER -> Diagram_default

\* The <svg> element the SystemDiagram component returns.
SystemDiagram(type) ==
    El("svg", << <<"viewBox", "0 0 600 250">>, <<"class", "w-full h-auto ">>,
                 <<"xmlns", SvgNamespace>> >>, <<>>,
       <<RoughFilter>> \o renderDiagram(type))

(***************************************************************************)
(* The DOM operations the export uses.                                     *)
(***************************************************************************)
\* Element.setAttribute: replaces the value of an attribute the element
\* has, appends the attribute otherwise.
setAttribute(el, name, value) ==
    IF \E i \in 1..Len(el.attrs) : el.attrs[i][1] = name
    THEN [el EXCEPT !.attrs = [i \in 1..Len(el.attrs) |->
                                 IF el.attrs[i][1] = name THEN <<name, value>>
                                 ELSE el.attrs[i]]]
    ELSE [el EXCEPT !.attrs = Append(@, <<name, value>>)]

\* Node.cloneNode(true): a deep copy; elements are values, so the copy is
\* the same value and no later change to it reaches the document.
cloneNode(el) == el

RECURSIVE FirstByTag(_, _)
\* The first element with the tag among the elements of a sequence and
\* their descendants, in document order; Null when there is none.
FirstByTag(els, tag) ==
    IF els = <<>> THEN Null
    ELSE IF Head(els).tag = tag THEN Some(Head(els))
    ELSE LET inside == FirstByTag(Head(els).kids, tag)
         IN IF inside # Null THEN inside ELSE FirstByTag(Tail(els), tag)

\* Element.querySelector with a tag selector: the first matching descendant.
querySelector(el, tag) == FirstByTag(el.kids, tag)

EscapeText(piece) ==
    CASE piece = "&" -> "&amp;"
      [] piece = "<" -> "&lt;"
      [] piece = ">" -> "&gt;"
      [] OTHER -> piece

RECURSIVE SerializeAttrs(_)
SerializeAttrs(attrs) ==
    IF attrs = <<>> THEN ""
    ELSE " " \o Head(attrs)[1] \o "=\"" \o Head(attrs)[2] \o "\""
         \o SerializeAttrs(Tail(attrs))

RECURSIVE SerializeText(_)
SerializeText(pieces) ==
    IF pieces = <<>> THEN ""
    ELSE EscapeText(Head(pieces)) \o SerializeText(Tail(pieces))

RECURSIVE serializeToString(_), SerializeAll(_)
\* XMLSerializer.serializeToString: the markup of an element and its
\* subtree; a text node is written as its escaped data.
serializeToString(el) ==
    IF el.tag = "#text" THEN SerializeText(el.text)
    ELSE IF el.text = <<>> /\ el.kids = <<>>
    THEN "<" \o el.tag \o SerializeAttrs(el.attrs) \o "/>"
    ELSE "<" \o el.tag \o SerializeAttrs(el.attrs) \o ">"
         \o SerializeText(el.text) \o SerializeAll(el.kids)
         \o "</" \o el.tag \o ">"

SerializeAll(els) ==
    IF els = <<>> THEN ""
    ELSE serializeToString(Head(els)) \o SerializeAll(Tail(els))

(***************************************************************************)
(* The data of the page.                                                   *)
(***************************************************************************)
Note(id, color, rotation, title) ==
    [id |-> id, color |-> color, rotation |-> rotation, title |-> title]

\* NOTES_DATA: the hero section's sticky notes.
NOTES_DATA ==
    << Note("intro", "yellow", "-rotate-2", "Hi, I'm Erick!"),
       Note("stack", "blue", "rotate-1", "Tech Stack"),
       Note("goals", "pink", "-rotate-3", "Current Focus") >>

\* CONTACT_NOTE: the footer's sticky note.
CONTACT_NOTE == Note("contact", "green", "rotate-2", "Communication Channels")

\* Every note a sticky note of the page selects.
PredefinedNotes == {NOTES_DATA[i] : i \in 1..Len(NOTES_DATA)} \cup {CONTACT_NOTE}

Descriptor(title, type, imageSrc) ==
    [title |-> title, type |-> type, imageSrc |-> imageSrc]

\* The project cards of the page, each with the descriptor its
\* onShowArchitecture callback selects (Null: no callback was given).
ProjectCards ==
    << [name |-> "PyDown",
        onShowArchitecture |->
            Some(Descriptor("PyDown Architecture", "pydown",
                            Some("/diagrams/pydown.png")))],
       [name |-> "Terminal Controlled Blog",
        onShowArchitecture |->
            Some(Descriptor("Terminal Controlled Blog Architecture", "cli",
                            Some("/diagrams/terminalandcoffee.png")))],
       [name |-> "Study Planner", onShowArchitecture |-> Null],
       [name |-> "Code Constellation", onShowArchitecture |-> Null],
       [name |-> "Auth Service",
        onShowArchitecture |->
            Some(Descriptor("Auth Service Architecture", "auth", Null))] >>

\* The descriptors the page's cards can select.
CardDescriptors ==
    {ProjectCards[i].onShowArchitecture[1] :
        i \in {j \in 1..Len(ProjectCards) : ProjectCards[j].onShowArchitecture # Null}}

\* Descriptors handed to selectDiagram beyond those of the cards: the two
\* the page keeps commented out, and titles with runs of white space, tabs,
\* a hyphen, leading and trailing white space, and an empty image path; the
\* cards' diagrams without their image paths; and a type the switch of
\* renderDiagram does not name.
OtherDescriptors ==
    { Descriptor("Study Planner Architecture", "microservices", Null),
      Descriptor("Log Aggregator Architecture", "logs", Null),
      Descriptor("Redis  Cache\tV2", "cache", Null),
      Descriptor(" x-Y ", "default", Some("")),
      Descriptor("Redis  Cache\tV2", "cache", Some("/diagrams/cache.svg")),
      Descriptor("PyDown Architecture", "pydown", Null),
      Descriptor("Terminal Controlled Blog Architecture", "cli", Null),
      Descriptor(" x-Y ", "queue", Null) }

InputDescriptors == CardDescriptors \cup OtherDescriptors

\* The titles above, character by character.
TitleChars ==
    { <<"P", "y", "D", "o", "w", "n", " ", "A", "r", "c", "h", "i", "t", "e", "c", "t", "u", "r", "e">>,
      <<"T", "e", "r", "m", "i", "n", "a", "l", " ", "C", "o", "n", "t", "r", "o", "l", "l", "e", "d", " ", "B", "l", "o", "g", " ", "A", "r", "c", "h", "i", "t", "e", "c", "t", "u", "r", "e">>,
      <<"A", "u", "t", "h", " ", "S", "e", "r", "v", "i", "c", "e", " ", "A", "r", "c", "h", "i", "t", "e", "c", "t", "u", "r", "e">>,
      <<"S", "t", "u", "d", "y", " ", "P", "l", "a", "n", "n", "e", "r", " ", "A", "r", "c", "h", "i", "t", "e", "c", "t", "u", "r", "e">>,
      <<"L", "o", "g", " ", "A", "g", "g", "r", "e", "g", "a", "t", "o", "r", " ", "A", "r", "c", "h", "i", "t", "e", "c", "t", "u", "r", "e">>,
      <<"R", "e", "d", "i", "s", " ", " ", "C", "a", "c", "h", "e", "\t", "V", "2">>,
      <<" ", "x", "-", "Y", " ">> }

\* The characters of a title.
CharsOf(title) == CHOOSE cs \in TitleChars : Join(cs) = title

(***************************************************************************)
(* The static content registry (DOCUMENT_DATA) and the document viewer     *)
(* (CaseStudyModal).  A section is a record with its variant tag in type   *)
(* and the fields of its variant.                                          *)
(***************************************************************************)
\* DOCUMENT_DATA as src/app/data/resume.ts exports it; date is the day the
\* module was loaded.
DOCUMENT_DATA(date) ==
    [header |-> [id |-> "PERSONNEL-FILE-001",
                 date |-> date,
                 title |-> "Erick Jillo",
                 subtitle |-> "Senior Backend Engineer // Distributed Systems",
                 classification |-> "TOP SECRET // EYES ONLY"],
     downloadUrl |-> "/resume.pdf",
     sections |->
         << [type |-> "text", title |-> "Executive Summary",
            content |->
                "Results-oriented Backend Engineer with 5+ years of experience designing scalable microservices. Proven track record of reducing latency and optimizing high-throughput systems. Polyglot programmer with a focus on Go, Rust, and Cloud Native technologies."],
            [type |-> "list", title |-> "Core Competencies",
            items |->
                << "Distributed System Design (Raft, Paxos)",
                   "High-Performance APIs (gRPC, GraphQL)",
                   "Database Optimization (PostgreSQL Internals, Redis Lua)",
                   "Infrastructure as Code (Terraform, Kubernetes)",
                   "Observability (Prometheus, Grafana, OpenTelemetry)" >>],
            [type |-> "experience", title |-> "Professional History",
            items |->
                << [role |-> "Senior Backend Engineer",
                    company |-> "TechCorp Cloud",
                    duration |-> "2022 - Present",
                    details |-> "Led the migration of the monolithic payment gateway to event-driven microservices. Reduced transaction latency by 40%."],
                   [role |-> "Software Engineer",
                    company |-> "StartupX",
                    duration |-> "2019 - 2022",
                    details |-> "Built the initial MVP for the real-time collaboration tool using Elixir/Phoenix. Scaled to 100k concurrent users."] >>],
            [type |-> "code", title |-> "Signature Code Style", language |-> "go",
            content |->
                "func (s *Server) HandleRequest(ctx context.Context, req *pb.Request) (*pb.Response, error) {\n    // Always prioritize context cancellation\n    select {\n    case <-ctx.Done():\n        return nil, ctx.Err()\n    default:\n        // Efficient processing...\n        return s.process(req)\n    }\n}"] >>]

\* DOCUMENT_DATA as src/unnamed/part_000 exports it.
DOCUMENT_DATA_part_000(date) ==
    [header |-> [id |-> "PERSONNEL-FILE-001",
                 date |-> date,
                 title |-> "Erick Jillo",
                 subtitle |-> "Senior Backend Engineer // Linux Systems",
                 classification |-> "TOP SECRET"],
     downloadUrl |-> "/Erick.pdf",
     sections |->
         << [type |-> "text", title |-> "Executive Summary",
            content |->
                "Results-oriented Backend Engineer with 2+ years of experience designing scalable microservices and backend systems. Proven track record of reducing latency and optimizing high-throughput systems. Polyglot programmer with a focus on Go, Python, and Javascript/Typescript"],
            [type |-> "list", title |-> "Core Competencies",
            items |->
                << "High-Performance APIs (RESTAPI, GraphQL)",
                   "Database Optimization (PostgreSQL Internals)",
                   "Observability (Prometheus, Grafana, OpenTelemetry)" >>],
            [type |-> "experience", title |-> "Professional History",
            items |->
                << [role |-> "Backend Engineer",
                    duration |-> "2025 - Present",
                    details |-> "Built a RESTFULAPI that incorperated caching for faster fetching of data from the database and implimented end to end encryption for user chats"],
                   [role |-> "Software Engineer",
                    duration |-> "2025-2026",
                    details |-> "Built a highly secure chama app that enables users to create informal savings groups and investments clubs."] >>] >>]

\* The day the page was built and loaded, and the days a module is loaded
\* on: new Date().toISOString().split('T')[0].
BuildDate == "2025-06-30"

ModuleLoadDates == {BuildDate, "2026-01-01"}

\* The registries the repository holds.
ShippedRegistries ==
    {DOCUMENT_DATA(date) : date \in ModuleLoadDates}
    \cup {DOCUMENT_DATA_part_000(date) : date \in ModuleLoadDates}

\* Further registries handed to the viewer: one without sections, and one
\* whose sections are reordered around a section of a tag the viewer's
\* switch does not name.
OtherRegistries ==
    { [DOCUMENT_DATA(BuildDate) EXCEPT !.sections = <<>>],
      [DOCUMENT_DATA(BuildDate) EXCEPT
          !.sections = << @[4], [type |-> "table", title |-> "Figures"], @[1],
                          @[3] >>] }

InputRegistries == ShippedRegistries \cup OtherRegistries

\* A property read: undefined (Null) when the object has no such property.
Prop(obj, name) == IF name \in DOMAIN obj THEN Some(obj[name]) ELSE Null

\* A JSX expression child: a string is rendered as text, undefined as
\* nothing.
TextChild(value) == IF value = Null THEN <<>> ELSE <<value[1]>>

\* The characters of the header's title.
HeaderTitleChars == {<<"E", "r", "i", "c", "k", " ", "J", "i", "l", "l", "o">>}

RECURSIVE UpToSpace(_)
\* The characters before the first space.
UpToSpace(chars) ==
    IF chars = <<>> \/ Head(chars) = " " THEN <<>>
    ELSE <<Head(chars)>> \o UpToSpace(Tail(chars))

\* header.title.split(' ')[0]
FirstWord(title) ==
    Join(UpToSpace(CHOOSE cs \in HeaderTitleChars : Join(cs) = title))

\* The <h3> every section variant starts with.
SectionHeading(section) == El("h3", <<>>, TextChild(Prop(section, "title")), <<>>)

\* One entry of an experience section.
ExperienceEntry(item, i) ==
    El("div", << <<"key", ToString(i)>> >>, <<>>,
       << El("div", <<>>, <<>>,
             << El("h4", <<>>, TextChild(Prop(item, "role")), <<>>),
                El("span", <<>>, TextChild(Prop(item, "duration")), <<>>) >>),
          El("div", <<>>, TextChild(Prop(item, "company")), <<>>),
          El("p", <<>>, TextChild(Prop(item, "details")), <<>>) >>)

\* The <section> element of a block with its heading and its content.
SectionBlock(section, index, content) ==
    Some(El("section", << <<"key", ToString(index)>> >>, <<>>,
            <<SectionHeading(section), content>>))

\* Mutant: sections of the variant "code" are rendered as nothing.
renderSection_NoCodeCase(section, index) ==
    CASE section.type = "text" ->
             SectionBlock(section, index,
                          El("p", <<>>, TextChild(Prop(section, "content")), <<>>))
      [] section.type = "list" ->
             SectionBlock(section, index,
                          El("ul", <<>>, <<>>,
                             [i \in 1..Len(section.items) |->
                                 El("li", << <<"key", ToString(i - 1)>> >>,
                                    <<section.items[i]>>, <<>>)]))
      [] section.type = "experience" ->
             SectionBlock(section, index,
                          El("div", <<>>, <<>>,
                             [i \in 1..Len(section.items) |->
                                 ExperienceEntry(section.items[i], i - 1)]))
      [] OTHER -> Null

\* renderSection: the block of a section, chosen by its variant tag; null
\* for any other tag.
renderSection(section, index) ==
    CASE section.type = "text" ->
             SectionBlock(section, index,
                          El("p", <<>>, TextChild(Prop(section, "content")), <<>>))
      [] section.type = "list" ->
             SectionBlock(section, index,
                          El("ul", <<>>, <<>>,
                             [i \in 1..Len(section.items) |->
                                 El("li", << <<"key", ToString(i - 1)>> >>,
                                    <<section.items[i]>>, <<>>)]))
      [] section.type = "experience" ->
             SectionBlock(section, index,
                          El("div", <<>>, <<>>,
                             [i \in 1..Len(section.items) |->
                                 ExperienceEntry(section.items[i], i - 1)]))
      [] section.type = "code" ->
             SectionBlock(section, index,
                          El("div", <<>>, <<>>,
                             << El("pre", <<>>, TextChild(Prop(section, "content")),
                                   <<>>) >>))
      [] OTHER -> Null

RECURSIVE RenderChildren(_)
\* The elements React renders for an array of children: null renders
\* nothing.
RenderChildren(children) ==
    IF children = <<>> THEN <<>>
    ELSE (IF Head(children) = Null THEN <<>> ELSE <<Head(children)[1]>>)
         \o RenderChildren(Tail(children))

\* The paper header of the document, with the close button (its glyph is
\* left out).
ViewerHeader(header) ==
    El("div", <<>>, <<>>,
       << El("div", <<>>, <<>>,
             << El("span", <<>>, <<"ID: #", header.id>>, <<>>),
                El("span", <<>>, <<"Date: ", header.date>>, <<>>) >>),
          El("h2", <<>>, <<header.title>>, <<>>),
          El("div", <<>>, <<>>,
             << El("p", <<>>, <<header.subtitle>>, <<>>),
                El("span", <<>>, <<"|">>, <<>>),
                El("p", <<>>, <<header.classification>>, <<>>) >>),
          El("button", << <<"onClick", "onClose">> >>, <<>>, <<>>) >>)

\* The signature and the download link that follow the sections.
ViewerFooter(header, downloadUrl) ==
    El("div", <<>>, <<>>,
       << El("div", <<>>, <<>>,
             << El("p", <<>>, <<FirstWord(header.title)>>, <<>>),
                El("p", <<>>, <<"Authorized Signature">>, <<>>) >>),
          El("a", << <<"href", downloadUrl>>, <<"download", "">> >>,
             <<"Download PDF">>,
             << El("svg", << <<"xmlns", SvgNamespace>>, <<"width", "16">>,
                             <<"height", "16">>, <<"viewBox", "0 0 24 24">> >>,
                   <<>>, <<>>) >>) >>)

\* CaseStudyModal: null when isOpen is false; otherwise the backdrop and
\* the document with its header, one block per section and the footer.
CaseStudyModal(isOpen, data) ==
    IF ~isOpen THEN Null
    ELSE Some(El("div", <<>>, <<>>,
                 << El("div", << <<"onClick", "onClose">> >>, <<>>, <<>>),
                    El("div", <<>>, <<>>,
                       << ViewerHeader(data.header),
                          El("div", <<>>, <<>>,
                             RenderChildren(
                                 [i \in 1..Len(data.sections) |->
                                     renderSection(data.sections[i], i - 1)])
                             \o <<ViewerFooter(data.header, data.downloadUrl)>>)
                       >>) >>))

(***************************************************************************)
(* The state.                                                              *)
(***************************************************************************)
VARIABLES
    page,                   \* "loading", "ready" (the theme script has run),
                            \* "hydrated" (Home is mounted) or "closed"
    registry,               \* the DOCUMENT_DATA object CaseStudyModal imports
    storageMode,            \* "ok", or "blocked": every access to localStorage throws
    colorScheme,            \* what matchMedia('(prefers-color-scheme: dark)')
                            \* answers: "dark", "light", or "unsupported" (it throws)
    localStorage,           \* the stored items, a function from keys to values
    htmlClassDark,          \* document.documentElement.classList contains "dark"
    mounted,                \* ThemeToggle: useState(false)
    isDark,                 \* ThemeToggle: useState(false)
    frame,                  \* the animation frame ThemeToggle's effect requested:
                            \* "none", "pending", "fired" or "cancelled"
    passiveEffects,         \* the passive effects (useEffect bodies and cleanups)
                            \* of the last commit that React has queued and not
                            \* yet run
    stateUpdates,           \* the state updates of ThemeToggle that the frame
                            \* callback has queued and React has not yet rendered
    selectedNote,           \* Home: useState<NoteData | null>(null)
    selectedProjectDiagram, \* Home: useState<{title, type, imageSrc?} | null>(null)
    isCaseStudyOpen,        \* Home: useState(false)
    domFault,               \* what is wrong with the rendered container, for a caller
                            \* outside the page: "none", "missing" or "empty"
    browser,                \* urls: the object URLs created and not revoked, with
                            \* their blobs; body: the links appended to document.body
                            \* and not removed; log: the browser calls the last
                            \* operation made, in order; downloads: the downloads it
                            \* triggered
    lastOp,                 \* the operation that ran last
    lastArg,                \* the value it was called with, Null when it takes none
    invoked,                \* the callback props the handlers of ProjectCard and
                            \* Modal invoked in that operation, in order
    pre,                    \* the state that operation started from
    before,                 \* the state the operation before it started from, kept
                            \* for the tracked pairs of consecutive operations
    threw,                  \* whether that operation ended by an uncaught exception
    modal,                  \* a Modal component: whether it is mounted, its props
                            \* isOpen and onClose, the handleEsc its effect
                            \* registered last, and how many times its effect ran
    windowKeydown           \* the keydown listeners registered on window, in the
                            \* order of their registration

coordinatorVars == <<selectedNote, selectedProjectDiagram, isCaseStudyOpen>>

themeVars == <<localStorage, htmlClassDark, mounted, isDark>>

\* The requested frame and the queued effects: what a render can change
\* next to the state of the components.
effectVars == <<frame, passiveEffects, stateUpdates>>

\* What no handler of the page changes: the browser's settings, the
\* registry, and the Modal component, which Home does not render.
envVars == <<storageMode, colorScheme, registry, modal, windowKeydown>>

vars ==
    <<page, registry, storageMode, colorScheme, localStorage, htmlClassDark, mounted, isDark,
      frame, passiveEffects, stateUpdates, selectedNote, selectedProjectDiagram, isCaseStudyOpen, domFault,
      browser, lastOp, lastArg, invoked, pre, before, threw, modal, windowKeydown>>

\* Storage.getItem: the value stored under the key, null when there is none.
getItem(key) ==
    IF key \in DOMAIN localStorage THEN Some(localStorage[key]) ELSE Null

\* Storage.setItem: the store with the value under the key.
setItem(key, value) ==
    [k \in DOMAIN localStorage \cup {key} |->
        IF k = key THEN value ELSE localStorage[k]]

NoItems == [k \in {} |-> ""]

\* What an operation records of the state it starts from.
Snapshot ==
    [selectedNote |-> selectedNote,
     selectedProjectDiagram |-> selectedProjectDiagram,
     isCaseStudyOpen |-> isCaseStudyOpen,
     isDark |-> isDark,
     htmlClassDark |-> htmlClassDark,
     localStorage |-> localStorage]

\* The pairs of consecutive operations whose starting state is kept.
TrackedPairs ==
    {<<"selectNote", "closeNote">>, <<"toggle", "toggle">>,
     <<"openDocument", "openDocument">>, <<"closeDocument", "closeDocument">>}

RecordInvoking(op, arg, callbacks) ==
    /\ lastOp' = op
    /\ lastArg' = arg
    /\ invoked' = callbacks
    /\ pre' = Snapshot
    /\ before' = IF <<lastOp, op>> \in TrackedPairs THEN Some(pre) ELSE Null

RecordCall(op, arg) == RecordInvoking(op, arg, <<>>)

Record(op) == RecordCall(op, Null)

\* An operation that calls nothing of the browser's download machinery.
NoBrowserEffects == browser' = [browser EXCEPT !.log = <<>>, !.downloads = <<>>]

(***************************************************************************)
(* The browser's download machinery, as the export uses it.  A browser     *)
(* record holds the live object URLs, the links in document.body, and the  *)
(* calls made and downloads triggered so far by the running operation.     *)
(***************************************************************************)
\* The number of object URLs that can be live at once in the model.
MaxObjectUrls == 2

BlobUrl(i) == "blob:" \o ToString(i)

BlobUrls == {BlobUrl(i) : i \in 1..MaxObjectUrls}

Call(name, arg) == [call |-> name, arg |-> arg]

Logged(b, name, arg) == [b EXCEPT !.log = Append(@, Call(name, arg))]

\* The URL URL.createObjectURL returns next: one that is not live.
NewUrl(b) ==
    BlobUrl(CHOOSE i \in 1..MaxObjectUrls :
              /\ \A u \in b.urls : u.url # BlobUrl(i)
              /\ \A j \in 1..(i - 1) : \E u \in b.urls : u.url = BlobUrl(j))

\* URL.createObjectURL(blob)
createObjectURL(b, blob) ==
    Logged([b EXCEPT !.urls = @ \cup {[url |-> NewUrl(b), blob |-> blob]}],
           "createObjectURL", NewUrl(b))

\* URL.revokeObjectURL(url)
revokeObjectURL(b, url) ==
    Logged([b EXCEPT !.urls = {u \in @ : u.url # url}], "revokeObjectURL", url)

\* document.body.appendChild(link)
appendChild(b, link) ==
    Logged([b EXCEPT !.body = Append(@, link)], "appendChild", link.href)

\* document.body.removeChild(link): the body without (the first) link.
removeChild(b, link) ==
    LET at == CHOOSE i \in 1..Len(b.body) :
                  b.body[i] = link /\ \A j \in 1..(i - 1) : b.body[j] # link
    IN Logged([b EXCEPT !.body = SubSeq(@, 1, at - 1) \o SubSeq(@, at + 1, Len(@))],
              "removeChild", link.href)

\* What a download of the address fetches: the blob of a live object URL,
\* nothing for an object URL that is not live, the file at a path.
Fetch(b, href) ==
    IF \E u \in b.urls : u.url = href
    THEN LET u == CHOOSE v \in b.urls : v.url = href
         IN [kind |-> "blob", type |-> u.blob.type, data |-> u.blob.data]
    ELSE IF href \in BlobUrls
         THEN [kind |-> "failed", type |-> "", data |-> ""]
         ELSE [kind |-> "file", type |-> "", data |-> href]

\* link.click() on an <a download>: the browser saves what the address
\* fetches under the link's download name.
click(b, link) ==
    Logged([b EXCEPT !.downloads =
                Append(@, [href |-> link.href, download |-> link.download,
                           content |-> Fetch(b, link.href)])],
           "click", link.href)

(***************************************************************************)
(* Home: rendering of the diagram overlay's container.                     *)
(***************************************************************************)
ContainerId == "architecture-diagram-container"

\* Mutant: the container holds an <img> whatever the diagram.
RenderContainer_AlwaysImage(diagram) ==
    IF diagram = Null THEN Null
    ELSE Some(El("div", << <<"id", ContainerId>> >>, <<>>,
                 << El("img", << <<"src", IF Truthy(diagram[1].imageSrc)
                                          THEN diagram[1].imageSrc[1] ELSE "">>,
                                 <<"alt", diagram[1].title>> >>, <<>>, <<>>) >>))

\* The container holds an <img> when the diagram has an image path and the
\* SystemDiagram drawing of its type otherwise; with no diagram selected the
\* overlay, and so the container, is not rendered.
RenderContainer(diagram) ==
    IF diagram = Null THEN Null
    ELSE Some(El("div", << <<"id", ContainerId>> >>, <<>>,
                 << IF Truthy(diagram[1].imageSrc)
                    THEN El("img", << <<"src", diagram[1].imageSrc[1]>>,
                                      <<"alt", diagram[1].title>> >>, <<>>, <<>>)
                    ELSE SystemDiagram(diagram[1].type) >>))

EmptyContainer == Some(El("div", << <<"id", ContainerId>> >>, <<>>, <<>>))

\* The element with id architecture-diagram-container in the document: what
\* Home rendered for the selected diagram, unless the document lacks it or
\* it holds nothing.
container ==
    CASE domFault = "none" -> RenderContainer(selectedProjectDiagram)
      [] domFault = "missing" -> Null
      [] domFault = "empty" -> EmptyContainer

\* document.getElementById: the container when asked for its id.
getElementById(id) == IF id = ContainerId THEN container ELSE Null

(***************************************************************************)
(* Home: handleDownloadDiagram.                                            *)
(***************************************************************************)
RECURSIVE ReplaceFirstWhiteSpaceRun(_)
ReplaceFirstWhiteSpaceRun(cs) ==
    IF cs = <<>> THEN <<>>
    ELSE IF Head(cs) \in WhiteSpace
         THEN <<"-">> \o SkipWhiteSpace(Tail(cs))
         ELSE <<Head(cs)>> \o ReplaceFirstWhiteSpaceRun(Tail(cs))

\* Mutant: replace(/\s+/, "-") without the g flag, which replaces the first
\* run only.
DownloadName_FirstRunOnly(diagram) ==
    Join(ReplaceFirstWhiteSpaceRun(toLowerCase(CharsOf(diagram.title)))) \o ".svg"

\* The name of the downloaded file: the title in lower case, each run of
\* white space replaced by a hyphen, then ".svg".
DownloadName(diagram) ==
    Join(ReplaceWhiteSpaceRuns(toLowerCase(CharsOf(diagram.title)))) \o ".svg"

\* The image branch: a link to the image path, clicked and removed again.
DownloadImage(b, diagram) ==
    LET link == [href |-> diagram.imageSrc[1], download |-> DownloadName(diagram)]
    IN removeChild(click(appendChild(b, link), link), link)

\* The first <svg> of the page's document: the terminal icon of the header.
HeaderIcon ==
    El("svg", << <<"xmlns", SvgNamespace>>, <<"width", "20">>, <<"height", "20">>,
                 <<"viewBox", "0 0 24 24">> >>, <<>>,
       << El("polyline", << <<"points", "4 17 10 11 4 5">> >>, <<>>, <<>>),
          El("line", << <<"x1", "12">>, <<"y1", "19">>, <<"x2", "20">>,
                        <<"y2", "19">> >>, <<>>, <<>>) >>)

\* Mutant: document.querySelector("svg"), the first drawing of the whole page.
FindSvgElement_InDocument == Some(HeaderIcon)

\* Mutant: a container without drawing falls back to the first drawing of
\* the whole page.
FindSvgElement_AnyDrawing ==
    LET modalElement == getElementById(ContainerId)
        found == IF modalElement = Null THEN Null
                 ELSE querySelector(modalElement[1], "svg")
    IN IF found # Null THEN found ELSE Some(HeaderIcon)

\* The rendered drawing: modalElement?.querySelector("svg").
FindSvgElement ==
    LET modalElement == getElementById(ContainerId)
    IN IF modalElement = Null THEN Null ELSE querySelector(modalElement[1], "svg")

\* Mutant: the object URL is revoked before the link is clicked.
DownloadInlineSvg_RevokeFirst(b, svgElement, diagram) ==
    LET clonedSvg == setAttribute(cloneNode(svgElement), "xmlns", SvgNamespace)
        b1 == Logged(b, "cloneNode", "svg")
        svgData == serializeToString(clonedSvg)
        b2 == Logged(b1, "serializeToString", "svg")
        svgBlob == [data |-> svgData, type |-> "image/svg+xml;charset=utf-8"]
        svgUrl == NewUrl(b2)
        b3 == createObjectURL(b2, svgBlob)
        downloadLink == [href |-> svgUrl, download |-> DownloadName(diagram)]
        b4 == appendChild(b3, downloadLink)
        b5 == revokeObjectURL(b4, svgUrl)
        b6 == click(b5, downloadLink)
    IN removeChild(b6, downloadLink)

\* The inline branch for a drawing that was found: clone, serialize, wrap
\* in a blob with an object URL, click a link to it, remove the link and
\* revoke the URL.
DownloadInlineSvg(b, svgElement, diagram) ==
    LET clonedSvg == setAttribute(cloneNode(svgElement), "xmlns", SvgNamespace)
        b1 == Logged(b, "cloneNode", "svg")
        svgData == serializeToString(clonedSvg)
        b2 == Logged(b1, "serializeToString", "svg")
        svgBlob == [data |-> svgData, type |-> "image/svg+xml;charset=utf-8"]
        svgUrl == NewUrl(b2)
        b3 == createObjectURL(b2, svgBlob)
        downloadLink == [href |-> svgUrl, download |-> DownloadName(diagram)]
        b4 == appendChild(b3, downloadLink)
        b5 == click(b4, downloadLink)
        b6 == removeChild(b5, downloadLink)
    IN revokeObjectURL(b6, svgUrl)

\* The browser after handleDownloadDiagram has run from browser b.
ExportDiagram(b) ==
    IF selectedProjectDiagram = Null THEN b
    ELSE IF Truthy(selectedProjectDiagram[1].imageSrc)
         THEN DownloadImage(b, selectedProjectDiagram[1])
         ELSE IF FindSvgElement # Null
              THEN DownloadInlineSvg(b, FindSvgElement[1], selectedProjectDiagram[1])
              ELSE b

\* Mutant: the overlay is closed once the export has run.
handleDownloadDiagram_ThenCloses ==
    /\ Cardinality(browser.urls) < MaxObjectUrls
    /\ browser' = ExportDiagram([browser EXCEPT !.log = <<>>, !.downloads = <<>>])
    /\ threw' = FALSE
    /\ selectedProjectDiagram' = Null
    /\ UNCHANGED <<selectedNote, isCaseStudyOpen, domFault, themeVars, envVars, page>>

\* handleDownloadDiagram as a step of the page: it changes the browser and
\* nothing of Home's state.
handleDownloadDiagram ==
    /\ Cardinality(browser.urls) < MaxObjectUrls
    /\ browser' = ExportDiagram([browser EXCEPT !.log = <<>>, !.downloads = <<>>])
    /\ threw' = FALSE
    /\ UNCHANGED <<coordinatorVars, domFault, themeVars, envVars, page>>

(***************************************************************************)
(* Home: the state setters.                                                *)
(***************************************************************************)
\* Mutant: setting the note also closes the diagram overlay.
setSelectedNote_ClosesDiagram(value) ==
    /\ selectedNote' = value
    /\ selectedProjectDiagram' = Null
    /\ threw' = FALSE
    /\ NoBrowserEffects
    /\ UNCHANGED <<isCaseStudyOpen, domFault, themeVars, envVars, page>>

\* Mutant: setting the note also closes the document viewer.
setSelectedNote_ClosesDocument(value) ==
    /\ selectedNote' = value
    /\ isCaseStudyOpen' = FALSE
    /\ threw' = FALSE
    /\ NoBrowserEffects
    /\ UNCHANGED <<selectedProjectDiagram, domFault, themeVars, envVars, page>>

setSelectedNote(value) ==
    /\ selectedNote' = value
    /\ threw' = FALSE
    /\ NoBrowserEffects
    /\ UNCHANGED <<selectedProjectDiagram, isCaseStudyOpen, domFault, themeVars,
                   envVars, page>>

\* Mutant: a change of the active diagram closes the note overlay.
setSelectedProjectDiagram_ClosesNote(value) ==
    /\ selectedProjectDiagram' = value
    /\ selectedNote' = Null
    /\ threw' = FALSE
    /\ NoBrowserEffects
    /\ UNCHANGED <<isCaseStudyOpen, domFault, themeVars, envVars, page>>

\* Mutant: a diagram selected while one is active does not replace it.
setSelectedProjectDiagram_KeepsActive(value) ==
    /\ selectedProjectDiagram' =
           IF value # Null /\ selectedProjectDiagram # Null
           THEN selectedProjectDiagram ELSE value
    /\ threw' = FALSE
    /\ NoBrowserEffects
    /\ UNCHANGED <<selectedNote, isCaseStudyOpen, domFault, themeVars, envVars, page>>

setSelectedProjectDiagram(value) ==
    /\ selectedProjectDiagram' = value
    /\ threw' = FALSE
    /\ NoBrowserEffects
    /\ UNCHANGED <<selectedNote, isCaseStudyOpen, domFault, themeVars, envVars, page>>

\* Mutant: the document flag is flipped whatever the value given.
setIsCaseStudyOpen_Flips(value) ==
    /\ isCaseStudyOpen' = ~isCaseStudyOpen
    /\ threw' = FALSE
    /\ NoBrowserEffects
    /\ UNCHANGED <<selectedNote, selectedProjectDiagram, domFault, themeVars,
                   envVars, page>>

\* Mutant: opening the document viewer closes the note overlay.
setIsCaseStudyOpen_Exclusive(value) ==
    /\ isCaseStudyOpen' = value
    /\ selectedNote' = IF value THEN Null ELSE selectedNote
    /\ threw' = FALSE
    /\ NoBrowserEffects
    /\ UNCHANGED <<selectedProjectDiagram, domFault, themeVars, envVars, page>>

setIsCaseStudyOpen(value) ==
    /\ isCaseStudyOpen' = value
    /\ threw' = FALSE
    /\ NoBrowserEffects
    /\ UNCHANGED <<selectedNote, selectedProjectDiagram, domFault, themeVars,
                   envVars, page>>

\* What Home renders of the overlays.
NoteOverlayVisible == selectedNote # Null

DiagramOverlayVisible == selectedProjectDiagram # Null

\* <CaseStudyModal isOpen={isCaseStudyOpen} .../>: what the viewer renders.
DocumentViewer == CaseStudyModal(isCaseStudyOpen, registry)

\* CaseStudyModal returns null when isOpen is false.
DocumentViewerVisible == DocumentViewer # Null

(***************************************************************************)
(* RootLayout: the theme initialization script.  The whole body is inside  *)
(* try { } catch (e) {}: a throwing localStorage or matchMedia ends it     *)
(* with the class list as it was.                                          *)
(***************************************************************************)
\* Mutant: only the storage read is guarded; a failing matchMedia counts as
\* "no preference".
ThemeInitScript_IgnoresMediaFailure ==
    /\ page = "loading"
    /\ page' = "ready"
    /\ IF storageMode = "blocked"
       THEN UNCHANGED htmlClassDark
       ELSE LET savedTheme == getItem("theme")
                prefersDark == colorScheme = "dark"
            IN htmlClassDark' =
                   (savedTheme = Some("dark") \/ (~Truthy(savedTheme) /\ prefersDark))
    /\ threw' = FALSE
    /\ NoBrowserEffects
    /\ Record("themeInitScript")
    /\ UNCHANGED <<localStorage, mounted, isDark, effectVars, coordinatorVars, domFault,
                   envVars>>

ThemeInitScript ==
    /\ page = "loading"
    /\ page' = "ready"
    /\ IF storageMode = "blocked" \/ colorScheme = "unsupported"
       THEN UNCHANGED htmlClassDark
       ELSE LET savedTheme == getItem("theme")
                prefersDark == colorScheme = "dark"
            IN htmlClassDark' =
                   (savedTheme = Some("dark") \/ (~Truthy(savedTheme) /\ prefersDark))
    /\ threw' = FALSE
    /\ NoBrowserEffects
    /\ Record("themeInitScript")
    /\ UNCHANGED <<localStorage, mounted, isDark, effectVars, coordinatorVars, domFault,
                   envVars>>

(***************************************************************************)
(* Mounting and unmounting of the page (Home with its ThemeToggle).  React *)
(* commits a render and queues the passive effects of that commit; it runs *)
(* them in a later task, or before it renders again, whichever is first.   *)
(* ThemeToggle's effect requests the animation frame and its cleanup, on   *)
(* unmount, cancels the request.                                           *)
(***************************************************************************)
\* The frame request once the queued effect of ThemeToggle has run.
FlushedFrame ==
    CASE passiveEffects = <<"ThemeToggle.effect">> -> "pending"
      [] passiveEffects = <<"ThemeToggle.cleanup">> ->
             IF frame = "pending" THEN "cancelled" ELSE frame
      [] OTHER -> frame

\* A render of the page: React runs the effects still queued first.
RenderFlushesEffects ==
    /\ frame' = FlushedFrame
    /\ passiveEffects' = <<>>

\* Mutant: Home mounts with the document viewer open.
Mount_DocumentOpen ==
    /\ page = "ready"
    /\ page' = "hydrated"
    /\ selectedNote' = Null
    /\ selectedProjectDiagram' = Null
    /\ isCaseStudyOpen' = TRUE
    /\ mounted' = FALSE
    /\ isDark' = FALSE
    /\ passiveEffects' = <<"ThemeToggle.effect">>
    /\ threw' = FALSE
    /\ NoBrowserEffects
    /\ Record("mount")
    /\ UNCHANGED <<localStorage, htmlClassDark, frame, stateUpdates, domFault, envVars>>

\* Home mounts with its useState initial values: the first render is
\* committed and ThemeToggle's effect is queued.
Mount ==
    /\ page = "ready"
    /\ page' = "hydrated"
    /\ selectedNote' = Null
    /\ selectedProjectDiagram' = Null
    /\ isCaseStudyOpen' = FALSE
    /\ mounted' = FALSE
    /\ isDark' = FALSE
    /\ passiveEffects' = <<"ThemeToggle.effect">>
    /\ threw' = FALSE
    /\ NoBrowserEffects
    /\ Record("mount")
    /\ UNCHANGED <<localStorage, htmlClassDark, frame, stateUpdates, domFault, envVars>>

\* React runs the queued effect of ThemeToggle: requestAnimationFrame, or
\* on unmount the cleanup, cancelAnimationFrame(frame).
ThemeToggleEffects ==
    /\ passiveEffects \in {<<"ThemeToggle.effect">>, <<"ThemeToggle.cleanup">>}
    /\ RenderFlushesEffects
    /\ threw' = FALSE
    /\ NoBrowserEffects
    /\ RecordCall("passiveEffects", Some(passiveEffects[1]))
    /\ UNCHANGED <<themeVars, stateUpdates, coordinatorVars, domFault, envVars, page>>

\* Mutant: unmounting queues no cleanup, the requested frame stays.
Unmount_KeepsFrame ==
    /\ page = "hydrated"
    /\ page' = "closed"
    /\ RenderFlushesEffects
    /\ stateUpdates' = <<>>
    /\ threw' = FALSE
    /\ NoBrowserEffects
    /\ Record("unmount")
    /\ UNCHANGED <<themeVars, coordinatorVars, domFault, envVars>>

\* A queued call of a state setter of ThemeToggle.
StateUpdate(setter, value) == [setter |-> setter, value |-> value]

RECURSIVE ApplyStateUpdates(_, _)
\* The state of ThemeToggle once the queued updates are rendered, in the
\* order of the calls.
ApplyStateUpdates(state, updates) ==
    IF updates = <<>> THEN state
    ELSE ApplyStateUpdates(
             IF Head(updates).setter = "setMounted"
             THEN [state EXCEPT !.mounted = Head(updates).value]
             ELSE [state EXCEPT !.isDark = Head(updates).value],
             Tail(updates))

\* Mutant: the frame callback detects the theme but does not call
\* setMounted.
FrameCallback_OnlyDetects ==
    /\ frame = "pending"
    /\ frame' = "fired"
    /\ stateUpdates' =
           IF page = "hydrated" /\ htmlClassDark
           THEN <<StateUpdate("setIsDark", TRUE)>>
           ELSE <<>>
    /\ threw' = FALSE
    /\ NoBrowserEffects
    /\ Record("frame")
    /\ UNCHANGED <<themeVars, passiveEffects, coordinatorVars, domFault, envVars,
                   page>>

\* The callback of the requested frame: the browser runs it unless the
\* request was cancelled.  It calls setMounted(true) and, when the root
\* element has the dark class, setIsDark(true); React queues the two
\* updates and renders them later.  When the component is already
\* unmounted the calls queue nothing.
FrameCallback ==
    /\ frame = "pending"
    /\ frame' = "fired"
    /\ stateUpdates' =
           IF page = "hydrated"
           THEN <<StateUpdate("setMounted", TRUE)>>
                \o (IF htmlClassDark THEN <<StateUpdate("setIsDark", TRUE)>> ELSE <<>>)
           ELSE <<>>
    /\ threw' = FALSE
    /\ NoBrowserEffects
    /\ Record("frame")
    /\ UNCHANGED <<themeVars, passiveEffects, coordinatorVars, domFault, envVars,
                   page>>

\* React renders ThemeToggle with the queued state updates: from then on
\* the component shows what the mounted guard selects.
RenderStateUpdates ==
    /\ page = "hydrated"
    /\ stateUpdates # <<>>
    /\ LET state == ApplyStateUpdates([mounted |-> mounted, isDark |-> isDark],
                                      stateUpdates)
       IN /\ mounted' = state.mounted
          /\ isDark' = state.isDark
    /\ stateUpdates' = <<>>
    /\ RenderFlushesEffects
    /\ threw' = FALSE
    /\ NoBrowserEffects
    /\ Record("render")
    /\ UNCHANGED <<localStorage, htmlClassDark, coordinatorVars, domFault, envVars,
                   page>>

\* The page is unmounted: React runs an effect still queued, commits the
\* removal and queues the cleanup of ThemeToggle's effect.  State updates
\* not yet rendered go with the component.
Unmount ==
    /\ page = "hydrated"
    /\ page' = "closed"
    /\ frame' = FlushedFrame
    /\ passiveEffects' = <<"ThemeToggle.cleanup">>
    /\ stateUpdates' = <<>>
    /\ threw' = FALSE
    /\ NoBrowserEffects
    /\ Record("unmount")
    /\ UNCHANGED <<themeVars, coordinatorVars, domFault, envVars>>

(***************************************************************************)
(* ThemeToggle: toggleTheme.  The class list changes first, then the item  *)
(* is stored, then the state is set; a throwing setItem ends the handler   *)
(* before setIsDark.                                                       *)
(***************************************************************************)
\* Mutant: the theme stored is the one that is left, not the one entered.
toggleTheme_StoresOldTheme ==
    /\ htmlClassDark' = ~isDark
    /\ IF storageMode = "blocked"
       THEN /\ threw' = TRUE
            /\ UNCHANGED <<localStorage, isDark>>
       ELSE /\ threw' = FALSE
            /\ localStorage' = setItem("theme", IF isDark THEN "dark" ELSE "light")
            /\ isDark' = ~isDark
    /\ NoBrowserEffects
    /\ UNCHANGED <<mounted, effectVars, coordinatorVars, domFault, envVars, page>>

\* Mutant: going back to light removes the item instead of storing "light".
toggleTheme_RemovesItemForLight ==
    /\ htmlClassDark' = ~isDark
    /\ IF storageMode = "blocked"
       THEN /\ threw' = TRUE
            /\ UNCHANGED <<localStorage, isDark>>
       ELSE /\ threw' = FALSE
            /\ localStorage' =
                   IF isDark
                   THEN [k \in DOMAIN localStorage \ {"theme"} |-> localStorage[k]]
                   ELSE setItem("theme", "dark")
            /\ isDark' = ~isDark
    /\ NoBrowserEffects
    /\ UNCHANGED <<mounted, effectVars, coordinatorVars, domFault, envVars, page>>

toggleTheme ==
    /\ htmlClassDark' = ~isDark
    /\ IF storageMode = "blocked"
       THEN /\ threw' = TRUE
            /\ UNCHANGED <<localStorage, isDark>>
       ELSE /\ threw' = FALSE
            /\ localStorage' = setItem("theme", IF isDark THEN "light" ELSE "dark")
            /\ isDark' = ~isDark
    /\ NoBrowserEffects
    /\ UNCHANGED <<mounted, effectVars, coordinatorVars, domFault, envVars, page>>

(***************************************************************************)
(* The user's actions: a handler runs when the element that carries it is  *)
(* rendered.                                                               *)
(***************************************************************************)
\* A sticky note of the hero section or the contact note is clicked.
ClickStickyNote(note) ==
    /\ page = "hydrated"
    /\ setSelectedNote(Some(note))
    /\ RecordCall("selectNote", Some(note))
    /\ RenderFlushesEffects
    /\ UNCHANGED stateUpdates

\* The backdrop or the close button of the note overlay is clicked.
ClickNoteClose ==
    /\ page = "hydrated"
    /\ selectedNote # Null
    /\ setSelectedNote(Null)
    /\ Record("closeNote")
    /\ RenderFlushesEffects
    /\ UNCHANGED stateUpdates

\* ProjectCard: {onShowArchitecture && (<button ...>)}, the "System
\* Architecture" button is rendered when the card was given the callback.
ShowsArchitectureButton(card) == card.onShowArchitecture # Null

\* Mutant: the button's handler invokes the callback twice.
ArchitectureButtonClick_Twice(card) ==
    <<card.onShowArchitecture, card.onShowArchitecture>>

\* ProjectCard: the button's onClick, e.stopPropagation() and then
\* onShowArchitecture(); the callbacks it invokes, in order.
ArchitectureButtonClick(card) == <<card.onShowArchitecture>>

\* The "System Architecture" button of a project card is clicked; each
\* callback of the page's cards sets the active diagram to its descriptor.
ClickShowArchitecture(card) ==
    /\ page = "hydrated"
    /\ ShowsArchitectureButton(card)
    /\ RenderFlushesEffects
    /\ UNCHANGED stateUpdates
    /\ LET callbacks == ArchitectureButtonClick(card)
       IN /\ setSelectedProjectDiagram(callbacks[Len(callbacks)])
          /\ RecordInvoking("selectDiagram", card.onShowArchitecture,
                            [i \in 1..Len(callbacks) |-> "onShowArchitecture"])

\* The backdrop or the close button of the diagram overlay is clicked.
ClickDiagramClose ==
    /\ page = "hydrated"
    /\ selectedProjectDiagram # Null
    /\ setSelectedProjectDiagram(Null)
    /\ Record("closeDiagram")
    /\ RenderFlushesEffects
    /\ UNCHANGED stateUpdates

\* Mutant: the download button is rendered outside the diagram overlay.
ClickDownload_OutsideOverlay ==
    /\ page = "hydrated"
    /\ handleDownloadDiagram
    /\ Record("exportActiveDiagram")
    /\ UNCHANGED effectVars

\* The download button of the diagram overlay is clicked.
ClickDownload ==
    /\ page = "hydrated"
    /\ selectedProjectDiagram # Null
    /\ handleDownloadDiagram
    /\ Record("exportActiveDiagram")
    /\ UNCHANGED effectVars

\* The manila folder is clicked.
ClickManilaFolder ==
    /\ page = "hydrated"
    /\ setIsCaseStudyOpen(TRUE)
    /\ Record("openDocument")
    /\ RenderFlushesEffects
    /\ UNCHANGED stateUpdates

\* The backdrop or the close button of the document viewer is clicked; the
\* viewer renders nothing when isOpen is false.
ClickCaseStudyClose ==
    /\ page = "hydrated"
    /\ isCaseStudyOpen
    /\ setIsCaseStudyOpen(FALSE)
    /\ Record("closeDocument")
    /\ RenderFlushesEffects
    /\ UNCHANGED stateUpdates

\* The theme button is clicked; until mounted is set ThemeToggle renders a
\* placeholder without a handler.
ClickThemeToggle ==
    /\ page = "hydrated"
    /\ mounted
    /\ toggleTheme
    /\ Record("toggle")

(***************************************************************************)
(* Modal: a component that registers a keydown listener on window while    *)
(* it is mounted.  Its effect depends on [onClose]: it is queued by the    *)
(* first render and by every render with another onClose, and runs the     *)
(* cleanup of the run before it first.  A listener is the handleEsc        *)
(* closure of one run of the effect, identified by the number of that run, *)
(* with the onClose it captured.                                           *)
(***************************************************************************)
MaxEffectRuns == 3

OnCloseCallbacks == {"onCloseA", "onCloseB"}

Keys == {"Escape", "Esc", "Enter", "a"}

\* A keydown listener some other code registered on window.
OtherListener == [id |-> 0, owner |-> "other", onClose |-> "otherKeydown"]

NoModal ==
    [mounted |-> FALSE, isOpen |-> FALSE, onClose |-> "onCloseA", handleEsc |-> Null,
     effectRuns |-> 0]

\* EventTarget.addEventListener: a listener already registered is not added
\* again.
addEventListener(listeners, listener) ==
    IF \E i \in 1..Len(listeners) : listeners[i].id = listener.id
    THEN listeners
    ELSE Append(listeners, listener)

\* EventTarget.removeEventListener: the listener with that identity is
\* removed, the others stay.
removeEventListener(listeners, id) ==
    SelectSeq(listeners, LAMBDA l : l.id # id)

\* Mutant: handleEsc calls onClose whatever the key.
handleEsc_AnyKey(listener, key) == <<listener.onClose>>

\* handleEsc: the callbacks the listener invokes for a key.
handleEsc(listener, key) ==
    IF key = "Escape" THEN <<listener.onClose>> ELSE <<>>

RECURSIVE DispatchKeydown(_, _)
\* window dispatches a keydown event to its listeners in the order of their
\* registration; the callbacks invoked, in order.
DispatchKeydown(listeners, key) ==
    IF listeners = <<>> THEN <<>>
    ELSE (IF Head(listeners).owner = "Modal"
          THEN handleEsc(Head(listeners), key)
          ELSE <<Head(listeners).onClose>>)
         \o DispatchKeydown(Tail(listeners), key)

\* What Modal renders: nothing when isOpen is false, else the backdrop and
\* the note with the close button, both carrying onClose.
ModalView(isOpen, onClose) ==
    IF ~isOpen THEN Null
    ELSE Some(El("div", <<>>, <<>>,
                 << El("div", << <<"onClick", onClose>> >>, <<>>, <<>>),
                    El("div", <<>>, <<>>,
                       << El("button", << <<"onClick", onClose>> >>, <<"x">>, <<>>),
                          El("div", <<>>, <<"children">>, <<>>) >>) >>))

\* Mutant: the effect registers its handleEsc without the cleanup of the
\* run before having removed the old one.
RunModalEffect_NoCleanup(state) ==
    LET id == state.modal.effectRuns + 1
    IN [modal |-> [state.modal EXCEPT !.handleEsc = Some(id), !.effectRuns = id],
        listeners |->
            addEventListener(state.listeners,
                             [id |-> id, owner |-> "Modal",
                              onClose |-> state.modal.onClose])]

\* A run of the effect on the modal and the listeners of window: the
\* cleanup of the run before removes its handleEsc, then the body
\* registers a new handleEsc that calls the onClose of the last render.
RunModalEffect(state) ==
    LET id == state.modal.effectRuns + 1
        cleaned == IF state.modal.handleEsc = Null THEN state.listeners
                   ELSE removeEventListener(state.listeners,
                                            state.modal.handleEsc[1])
    IN [modal |-> [state.modal EXCEPT !.handleEsc = Some(id), !.effectRuns = id],
        listeners |->
            addEventListener(cleaned,
                             [id |-> id, owner |-> "Modal",
                              onClose |-> state.modal.onClose])]

\* The effect's cleanup on unmount: the handleEsc of the last run is
\* removed.
RunModalCleanup(state) ==
    [modal |-> [state.modal EXCEPT !.handleEsc = Null],
     listeners |-> IF state.modal.handleEsc = Null THEN state.listeners
                   ELSE removeEventListener(state.listeners,
                                            state.modal.handleEsc[1])]

\* The modal and the listeners once the queued effects have run.
ModalFlushed ==
    LET state == [modal |-> modal, listeners |-> windowKeydown]
    IN CASE passiveEffects = <<"Modal.effect">> -> RunModalEffect(state)
         [] passiveEffects = <<"Modal.cleanup">> -> RunModalCleanup(state)
         [] OTHER -> state

ModalUnchanged ==
    UNCHANGED <<page, themeVars, frame, stateUpdates, coordinatorVars, domFault, browser, threw,
                storageMode, colorScheme, registry>>

\* The Modal is mounted: React runs a cleanup still queued, commits the
\* first render and queues the effect.
MountModal(isOpen, onClose) ==
    /\ ~modal.mounted
    /\ LET state == ModalFlushed
       IN /\ state.modal.effectRuns < MaxEffectRuns
          /\ modal' = [state.modal EXCEPT !.mounted = TRUE, !.isOpen = isOpen,
                                          !.onClose = onClose]
          /\ windowKeydown' = state.listeners
    /\ passiveEffects' = <<"Modal.effect">>
    /\ RecordCall("mountModal", Some(onClose))
    /\ ModalUnchanged

\* The parent renders the Modal again, with the same or other props: React
\* runs an effect still queued, commits the render and, when onClose is
\* another function than in the render before, queues the effect again.
RerenderModal(isOpen, onClose) ==
    /\ modal.mounted
    /\ LET state == ModalFlushed
       IN /\ onClose # modal.onClose => state.modal.effectRuns < MaxEffectRuns
          /\ modal' = [state.modal EXCEPT !.isOpen = isOpen, !.onClose = onClose]
          /\ windowKeydown' = state.listeners
    /\ passiveEffects' = IF onClose # modal.onClose THEN <<"Modal.effect">> ELSE <<>>
    /\ RecordCall("rerenderModal", Some(onClose))
    /\ ModalUnchanged

\* The Modal is unmounted: React runs an effect still queued, commits the
\* removal and queues the cleanup.
UnmountModal ==
    /\ modal.mounted
    /\ LET state == ModalFlushed
       IN /\ modal' = [state.modal EXCEPT !.mounted = FALSE]
          /\ windowKeydown' = state.listeners
    /\ passiveEffects' = <<"Modal.cleanup">>
    /\ Record("unmountModal")
    /\ ModalUnchanged

\* React runs the queued effect or cleanup of the Modal.
ModalEffects ==
    /\ passiveEffects \in {<<"Modal.effect">>, <<"Modal.cleanup">>}
    /\ modal' = ModalFlushed.modal
    /\ windowKeydown' = ModalFlushed.listeners
    /\ passiveEffects' = <<>>
    /\ RecordCall("passiveEffects", Some(passiveEffects[1]))
    /\ ModalUnchanged

\* A key is pressed: window dispatches the keydown event.
KeyDown(key) ==
    /\ RecordInvoking("keydown", Some(key), DispatchKeydown(windowKeydown, key))
    /\ UNCHANGED <<modal, windowKeydown, passiveEffects>>
    /\ ModalUnchanged

\* The backdrop or the close button of the rendered Modal is clicked.
ClickModalClose(child) ==
    /\ modal.mounted
    /\ ModalView(modal.isOpen, modal.onClose) # Null
    /\ LET view == ModalView(modal.isOpen, modal.onClose)[1]
           target == IF child = "backdrop" THEN view.kids[1] ELSE view.kids[2].kids[1]
       IN RecordInvoking("clickModal", Some(child), <<target.attrs[1][2]>>)
    /\ UNCHANGED <<modal, windowKeydown, passiveEffects>>
    /\ ModalUnchanged

(***************************************************************************)
(* The specification of the page in the browser.                           *)
(***************************************************************************)
\* The document as served, before the theme script runs: <html> carries no
\* class; localStorage holds what earlier visits stored under "theme".
Init ==
    /\ page = "loading"
    /\ registry = DOCUMENT_DATA(BuildDate)
    /\ storageMode \in {"ok", "blocked"}
    /\ colorScheme \in {"dark", "light", "unsupported"}
    /\ localStorage \in {NoItems, [k \in {"theme"} |-> "light"],
                         [k \in {"theme"} |-> "dark"]}
    /\ htmlClassDark = FALSE
    /\ mounted = FALSE
    /\ isDark = FALSE
    /\ frame = "none"
    /\ passiveEffects = <<>>
    /\ stateUpdates = <<>>
    /\ selectedNote = Null
    /\ selectedProjectDiagram = Null
    /\ isCaseStudyOpen = FALSE
    /\ domFault = "none"
    /\ browser = [urls |-> {}, body |-> <<>>, log |-> <<>>, downloads |-> <<>>]
    /\ lastOp = "load"
    /\ lastArg = Null
    /\ invoked = <<>>
    /\ pre = Snapshot
    /\ before = Null
    /\ threw = FALSE
    /\ modal = NoModal
    /\ windowKeydown = <<>>

Next ==
    \/ ThemeInitScript
    \/ Mount
    \/ ThemeToggleEffects
    \/ FrameCallback
    \/ RenderStateUpdates
    \/ Unmount
    \/ \E note \in PredefinedNotes : ClickStickyNote(note)
    \/ ClickNoteClose
    \/ \E i \in 1..Len(ProjectCards) : ClickShowArchitecture(ProjectCards[i])
    \/ ClickDiagramClose
    \/ ClickDownload
    \/ ClickManilaFolder
    \/ ClickCaseStudyClose
    \/ ClickThemeToggle

Spec == Init /\ [][Next]_vars

\* The page in a browser that runs every requested animation frame and
\* with React's scheduler running every queued effect and rendering every
\* queued state update: a callback that stays requested, an effect that
\* stays queued and an update that stays queued are eventually run.
SpecFair ==
    /\ Init /\ [][Next]_vars
    /\ WF_vars(ThemeToggleEffects)
    /\ WF_vars(FrameCallback)
    /\ WF_vars(RenderStateUpdates)

(***************************************************************************)
(* The specification of handleDownloadDiagram as a function of the state   *)
(* it is called in: any selection of note, diagram and document, with the  *)
(* container as rendered for the diagram, missing, or holding no drawing.  *)
(***************************************************************************)
InitCall ==
    /\ page = "hydrated"
    /\ registry = DOCUMENT_DATA(BuildDate)
    /\ storageMode = "ok"
    /\ colorScheme = "light"
    /\ localStorage = NoItems
    /\ htmlClassDark = FALSE
    /\ mounted = TRUE
    /\ isDark = FALSE
    /\ frame = "fired"
    /\ passiveEffects = <<>>
    /\ stateUpdates = <<>>
    /\ selectedNote \in {Null} \cup {Some(n) : n \in PredefinedNotes}
    /\ selectedProjectDiagram \in {Null} \cup {Some(d) : d \in InputDescriptors}
    /\ isCaseStudyOpen \in BOOLEAN
    /\ domFault \in {"none", "missing", "empty"}
    /\ browser = [urls |-> {}, body |-> <<>>, log |-> <<>>, downloads |-> <<>>]
    /\ lastOp = "load"
    /\ lastArg = Null
    /\ invoked = <<>>
    /\ pre = Snapshot
    /\ before = Null
    /\ threw = FALSE
    /\ modal = NoModal
    /\ windowKeydown = <<>>

\* handleDownloadDiagram is called.
CallDownload ==
    /\ handleDownloadDiagram
    /\ Record("exportActiveDiagram")
    /\ UNCHANGED effectVars

NextCall == CallDownload

SpecCall == InitCall /\ [][NextCall]_vars

(***************************************************************************)
(* The specification of the coordinator's operations as functions of the   *)
(* state they are called in: any selection of note, diagram and document,  *)
(* with the viewer reading any of the registries.                          *)
(***************************************************************************)
InitOps ==
    /\ page = "hydrated"
    /\ registry \in InputRegistries
    /\ storageMode = "ok"
    /\ colorScheme = "light"
    /\ localStorage = NoItems
    /\ htmlClassDark = FALSE
    /\ mounted = TRUE
    /\ isDark = FALSE
    /\ frame = "fired"
    /\ passiveEffects = <<>>
    /\ stateUpdates = <<>>
    /\ selectedNote \in {Null} \cup {Some(n) : n \in PredefinedNotes}
    /\ selectedProjectDiagram \in {Null} \cup {Some(d) : d \in CardDescriptors}
    /\ isCaseStudyOpen \in BOOLEAN
    /\ domFault = "none"
    /\ browser = [urls |-> {}, body |-> <<>>, log |-> <<>>, downloads |-> <<>>]
    /\ lastOp = "load"
    /\ lastArg = Null
    /\ invoked = <<>>
    /\ pre = Snapshot
    /\ before = Null
    /\ threw = FALSE
    /\ modal = NoModal
    /\ windowKeydown = <<>>

\* selectNote: setSelectedNote(note)
CallSelectNote(note) ==
    /\ setSelectedNote(Some(note))
    /\ RecordCall("selectNote", Some(note))
    /\ UNCHANGED effectVars

\* closeNote: setSelectedNote(null)
CallCloseNote ==
    /\ setSelectedNote(Null)
    /\ Record("closeNote")
    /\ UNCHANGED effectVars

\* selectDiagram: setSelectedProjectDiagram(descriptor)
CallSelectDiagram(descriptor) ==
    /\ setSelectedProjectDiagram(Some(descriptor))
    /\ RecordCall("selectDiagram", Some(descriptor))
    /\ UNCHANGED effectVars

\* closeDiagram: setSelectedProjectDiagram(null)
CallCloseDiagram ==
    /\ setSelectedProjectDiagram(Null)
    /\ Record("closeDiagram")
    /\ UNCHANGED effectVars

\* openDocument: setIsCaseStudyOpen(true)
CallOpenDocument ==
    /\ setIsCaseStudyOpen(TRUE)
    /\ Record("openDocument")
    /\ UNCHANGED effectVars

\* closeDocument: setIsCaseStudyOpen(false)
CallCloseDocument ==
    /\ setIsCaseStudyOpen(FALSE)
    /\ Record("closeDocument")
    /\ UNCHANGED effectVars

NextOps ==
    \/ \E note \in PredefinedNotes : CallSelectNote(note)
    \/ CallCloseNote
    \/ \E descriptor \in CardDescriptors : CallSelectDiagram(descriptor)
    \/ CallCloseDiagram
    \/ CallOpenDocument
    \/ CallCloseDocument

SpecOps == InitOps /\ [][NextOps]_vars

(***************************************************************************)
(* The specification of a Modal component on a window.                     *)
(***************************************************************************)
InitModal ==
    /\ page = "loading"
    /\ registry = DOCUMENT_DATA(BuildDate)
    /\ storageMode = "ok"
    /\ colorScheme = "light"
    /\ localStorage = NoItems
    /\ htmlClassDark = FALSE
    /\ mounted = FALSE
    /\ isDark = FALSE
    /\ frame = "none"
    /\ passiveEffects = <<>>
    /\ stateUpdates = <<>>
    /\ selectedNote = Null
    /\ selectedProjectDiagram = Null
    /\ isCaseStudyOpen = FALSE
    /\ domFault = "none"
    /\ browser = [urls |-> {}, body |-> <<>>, log |-> <<>>, downloads |-> <<>>]
    /\ lastOp = "load"
    /\ lastArg = Null
    /\ invoked = <<>>
    /\ pre = Snapshot
    /\ before = Null
    /\ threw = FALSE
    /\ modal = NoModal
    /\ windowKeydown \in {<<>>, <<OtherListener>>}

NextModal ==
    \/ \E isOpen \in BOOLEAN, onClose \in OnCloseCallbacks : MountModal(isOpen, onClose)
    \/ \E isOpen \in BOOLEAN, onClose \in OnCloseCallbacks : RerenderModal(isOpen, onClose)
    \/ UnmountModal
    \/ ModalEffects
    \/ \E key \in Keys : KeyDown(key)
    \/ \E child \in {"backdrop", "closeButton"} : ClickModalClose(child)

SpecModal == InitModal /\ [][NextModal]_vars

(***************************************************************************)
(* Properties of the export (handleDownloadDiagram).                       *)
(***************************************************************************)
Exported == lastOp = "exportActiveDiagram"

\* The export started with a diagram that has an image path.
ExportedImage ==
    /\ Exported
    /\ pre.selectedProjectDiagram # Null
    /\ Truthy(pre.selectedProjectDiagram[1].imageSrc)

\* The export started with a diagram without image path.
ExportedInline ==
    /\ Exported
    /\ pre.selectedProjectDiagram # Null
    /\ ~Truthy(pre.selectedProjectDiagram[1].imageSrc)

\* The container held the drawing Home renders for the diagram.
DrawingRendered == domFault = "none"

CallNames == [i \in 1..Len(browser.log) |-> browser.log[i].call]

\* The file names the title rule gives, written out title by title.
ExpectedFileName(title) ==
    CASE title = "PyDown Architecture" -> "pydown-architecture.svg"
      [] title = "Terminal Controlled Blog Architecture" ->
             "terminal-controlled-blog-architecture.svg"
      [] title = "Auth Service Architecture" -> "auth-service-architecture.svg"
      [] title = "Study Planner Architecture" -> "study-planner-architecture.svg"
      [] title = "Log Aggregator Architecture" -> "log-aggregator-architecture.svg"
      [] title = "Redis  Cache\tV2" -> "redis-cache-v2.svg"
      [] title = " x-Y " -> "-x-y-.svg"

\* C1: the export never changes the coordinator's state: on each of its
\* paths the selected note, the selected diagram and the document-open flag
\* are after the call what they were before it.
C1_ExportKeepsCoordinatorState ==
    Exported =>
        /\ selectedNote = pre.selectedNote
        /\ selectedProjectDiagram = pre.selectedProjectDiagram
        /\ isCaseStudyOpen = pre.isCaseStudyOpen

\* An inline drawing was downloaded while a note, a diagram and the
\* document were all open.
C1_Witness ==
    /\ ExportedInline
    /\ Len(browser.downloads) = 1
    /\ selectedNote # Null
    /\ selectedProjectDiagram # Null
    /\ isCaseStudyOpen

\* C2: with an image path the export triggers exactly one download, of that
\* path, named by the title rule, and creates no object URL.
C2_ImageDownload ==
    ExportedImage =>
        LET d == pre.selectedProjectDiagram[1]
        IN /\ Len(browser.downloads) = 1
           /\ browser.downloads[1].href = d.imageSrc[1]
           /\ browser.downloads[1].content =
                  [kind |-> "file", type |-> "", data |-> d.imageSrc[1]]
           /\ browser.downloads[1].download = ExpectedFileName(d.title)
           /\ \A i \in 1..Len(browser.log) : browser.log[i].call # "createObjectURL"
           /\ browser.urls = {}

\* The image of the Terminal Controlled Blog card was downloaded.
C2_Witness ==
    /\ ExportedImage
    /\ pre.selectedProjectDiagram[1].title = "Terminal Controlled Blog Architecture"
    /\ Len(browser.downloads) = 1
    /\ browser.downloads[1].href = "/diagrams/terminalandcoffee.png"
    /\ browser.downloads[1].download = "terminal-controlled-blog-architecture.svg"

\* C3: without image path and with a drawing rendered, the export clones,
\* serializes, creates the object URL, triggers the download and then
\* revokes the URL, in this order; the URL is live when the download is
\* triggered and revoked when the call returns, and the link is removed
\* from the document again.
C3_InlineExportOrder ==
    (ExportedInline /\ DrawingRendered) =>
        /\ CallNames = <<"cloneNode", "serializeToString", "createObjectURL",
                         "appendChild", "click", "removeChild", "revokeObjectURL">>
        /\ \A i \in 1..Len(browser.log) :
              browser.log[i].call = "createObjectURL" =>
                  \E j, k \in 1..Len(browser.log) :
                      /\ i < j /\ j < k
                      /\ browser.log[j] = Call("click", browser.log[i].arg)
                      /\ browser.log[k] = Call("revokeObjectURL", browser.log[i].arg)
        /\ Len(browser.downloads) = 1
        /\ browser.downloads[1].content.kind = "blob"
        /\ browser.urls = {}
        /\ browser.body = <<>>

\* The drawing of a diagram without image path was exported.
C3_Witness ==
    /\ ExportedInline
    /\ DrawingRendered
    /\ Len(browser.log) = 7
    /\ browser.log[7].call = "revokeObjectURL"

\* C4: after a diagram without image path was selected, the export
\* downloads a file named by the title rule whose content is the
\* serialization of the drawing the renderer produces for the diagram's
\* type, and of no other type's drawing.
C4_InlineExportContent ==
    ExportedInline =>
        LET d == pre.selectedProjectDiagram[1]
        IN /\ Len(browser.downloads) = 1
           /\ browser.downloads[1].download = ExpectedFileName(d.title)
           /\ browser.downloads[1].content.kind = "blob"
           /\ browser.downloads[1].content.type = "image/svg+xml;charset=utf-8"
           /\ browser.downloads[1].content.data = serializeToString(SystemDiagram(d.type))
           /\ \A t \in DiagramTypes \ {d.type} :
                  browser.downloads[1].content.data # serializeToString(SystemDiagram(t))

\* The Auth Service drawing was exported as auth-service-architecture.svg.
C4_Witness ==
    /\ ExportedInline
    /\ pre.selectedProjectDiagram =
           Some(Descriptor("Auth Service Architecture", "auth", Null))
    /\ Len(browser.downloads) = 1
    /\ browser.downloads[1].download = "auth-service-architecture.svg"
    /\ browser.downloads[1].content.data = serializeToString(SystemDiagram("auth"))

\* C5: with no diagram selected, or with no drawing found for a diagram
\* without image path, the export does nothing: no download, no object URL,
\* no link in the document, no browser call and no exception.
C5_SilentNoOp ==
    (\/ (Exported /\ pre.selectedProjectDiagram = Null)
     \/ (ExportedInline /\ ~DrawingRendered)) =>
        /\ browser.downloads = <<>>
        /\ browser.log = <<>>
        /\ browser.urls = {}
        /\ browser.body = <<>>
        /\ ~threw

\* The export ran for a diagram without image path whose container held
\* no drawing.
C5_Witness ==
    /\ ExportedInline
    /\ domFault = "empty"
    /\ browser.downloads = <<>>

(***************************************************************************)
(* Properties of the overlays.                                             *)
(***************************************************************************)
\* The overlay visibility a snapshot holds.
Visibility(st) ==
    <<st.selectedNote, st.selectedProjectDiagram, st.isCaseStudyOpen>>

CurrentVisibility == <<selectedNote, selectedProjectDiagram, isCaseStudyOpen>>

\* closeNote has run right after selectNote; before[1] is the state selectNote
\* started from.
SelectedThenClosed == lastOp = "closeNote" /\ before # Null

\* C6 as stated: selectNote followed by closeNote returns the selected note,
\* the selected diagram and the document-open flag to what they were before
\* selectNote, from every state.
C6_Original_SelectCloseRestores ==
    SelectedThenClosed => CurrentVisibility = Visibility(before[1])

\* C6 as amended: selectNote followed by closeNote leaves no note selected
\* and the selected diagram and the document-open flag as they were before
\* selectNote; so it restores the overlay visibility when no note was
\* selected before selectNote.
C6_SelectCloseClearsNote ==
    SelectedThenClosed =>
        /\ selectedNote = Null
        /\ selectedProjectDiagram = before[1].selectedProjectDiagram
        /\ isCaseStudyOpen = before[1].isCaseStudyOpen
        /\ (before[1].selectedNote = Null =>
                CurrentVisibility = Visibility(before[1]))

\* The contact note was selected and closed again with a diagram and the
\* document open and no note selected before.
C6_Witness ==
    /\ SelectedThenClosed
    /\ pre.selectedNote = Some(CONTACT_NOTE)
    /\ before[1].selectedNote = Null
    /\ before[1].selectedProjectDiagram # Null
    /\ before[1].isCaseStudyOpen
    /\ CurrentVisibility = Visibility(before[1])

\* C7: selectNote makes the note overlay visible, showing a predefined
\* note, and leaves the selected diagram and the document-open flag as
\* they were.
C7_SelectNoteFrame ==
    lastOp = "selectNote" =>
        /\ NoteOverlayVisible
        /\ selectedNote[1] \in PredefinedNotes
        /\ selectedProjectDiagram = pre.selectedProjectDiagram
        /\ isCaseStudyOpen = pre.isCaseStudyOpen

\* A note was selected while a diagram and the document were open.
C7_Witness ==
    /\ lastOp = "selectNote"
    /\ pre.selectedNote = Null
    /\ NoteOverlayVisible
    /\ DiagramOverlayVisible
    /\ DocumentViewerVisible

OpenOverlays(st) ==
    (IF st.selectedNote # Null THEN 1 ELSE 0)
    + (IF st.selectedProjectDiagram # Null THEN 1 ELSE 0)
    + (IF st.isCaseStudyOpen THEN 1 ELSE 0)

CoordinatorOps ==
    {"selectNote", "closeNote", "selectDiagram", "closeDiagram", "openDocument",
     "closeDocument", "exportActiveDiagram"}

\* How many of the three visibility flags the last operation changed.
ChangedFlags ==
    (IF selectedNote # pre.selectedNote THEN 1 ELSE 0)
    + (IF selectedProjectDiagram # pre.selectedProjectDiagram THEN 1 ELSE 0)
    + (IF isCaseStudyOpen # pre.isCaseStudyOpen THEN 1 ELSE 0)

\* C8: opening the document while a note is open is accepted and leaves
\* both open; and no operation run with more than one overlay open changes
\* more than one of the three flags, none that selects or opens closes an
\* overlay, and none of the coordinator's throws.
C8_OverlaysNotExclusive ==
    /\ (lastOp = "openDocument" /\ pre.selectedNote # Null) =>
           /\ selectedNote = pre.selectedNote
           /\ isCaseStudyOpen
           /\ ~threw
    /\ OpenOverlays(pre) >= 2 =>
           /\ ChangedFlags <= 1
           /\ lastOp \in {"selectNote", "selectDiagram", "openDocument"} =>
                  OpenOverlays(Snapshot) >= OpenOverlays(pre)
           /\ lastOp \in CoordinatorOps => ~threw

\* The document was opened over an open note and both are visible.
C8_Witness ==
    /\ lastOp = "openDocument"
    /\ pre.selectedNote # Null
    /\ ~pre.isCaseStudyOpen
    /\ NoteOverlayVisible
    /\ DocumentViewerVisible

(***************************************************************************)
(* Properties of the theme.                                                *)
(***************************************************************************)
ThemeName(dark) == IF dark THEN "dark" ELSE "light"

\* toggle has run twice in a row; before[1] is the state the first of the two
\* started from.
ToggledTwice == lastOp = "toggle" /\ before # Null

\* C9 as stated: two toggles in a row restore the in-memory dark flag and
\* the persisted value, also from the state where nothing is persisted.
C9_Original_ToggleInvolution ==
    ToggledTwice =>
        /\ isDark = before[1].isDark
        /\ localStorage = before[1].localStorage

\* C9 as amended: two toggles in a row restore the in-memory dark flag;
\* where storage can be written the persisted value ends as the name of the
\* original in-memory theme, so it is restored when it was that name before
\* and is not restored from the state where nothing is persisted; where
\* storage throws, it is not written at all.
C9_ToggleTwice ==
    ToggledTwice =>
        LET was == before[1].localStorage
        IN /\ isDark = before[1].isDark
           /\ storageMode = "ok" =>
                  /\ localStorage = [k \in DOMAIN was \cup {"theme"} |->
                                       IF k = "theme" THEN ThemeName(before[1].isDark)
                                       ELSE was[k]]
                  /\ ("theme" \in DOMAIN was /\ was["theme"] = ThemeName(before[1].isDark))
                         => localStorage = was
                  /\ "theme" \notin DOMAIN was => localStorage # was
           /\ storageMode = "blocked" => localStorage = was

\* Two toggles in a row, both of which wrote the store, ended with the dark
\* flag and the persisted "dark" they started from.
C9_Witness ==
    /\ ToggledTwice
    /\ storageMode = "ok"
    /\ before[1].isDark
    /\ ~pre.isDark
    /\ isDark
    /\ before[1].localStorage = [k \in {"theme"} |-> "dark"]
    /\ pre.localStorage = [k \in {"theme"} |-> "light"]
    /\ localStorage = before[1].localStorage

\* The preference a visit finds persisted: none when storage cannot be read.
PersistedPreference == IF storageMode = "ok" THEN getItem("theme") ELSE Null

\* C10: once the deferred detection step has run, the theme is the
\* persisted preference when there is one and the system's colour scheme
\* otherwise: the dark class is set and the in-memory flag is dark exactly
\* in that case.
C10_InitialTheme ==
    (lastOp = "render" /\ page = "hydrated") =>
        LET dark == IF PersistedPreference # Null
                    THEN PersistedPreference = Some("dark")
                    ELSE colorScheme = "dark"
        IN htmlClassDark = dark /\ isDark = dark

\* C11: after every toggle the in-memory flag is the opposite of what it
\* was, and the three agree: the in-memory flag is dark iff the persisted
\* value is "dark" iff the dark class is set.
C11_ToggleKeepsThemeInAgreement ==
    lastOp = "toggle" =>
        /\ isDark = ~pre.isDark
        /\ isDark <=> (getItem("theme") = Some("dark"))
        /\ isDark <=> htmlClassDark

\* C12: where storage cannot be written, a toggle persists nothing and
\* still flips the in-memory flag and the dark class together, and a
\* second toggle brings the theme back.
C12_ToggleWithoutStorage ==
    /\ (lastOp = "toggle" /\ storageMode = "blocked") =>
           /\ localStorage = pre.localStorage
           /\ isDark = ~pre.isDark
           /\ htmlClassDark = ~pre.htmlClassDark
           /\ isDark = htmlClassDark
    /\ (ToggledTwice /\ storageMode = "blocked") =>
           /\ htmlClassDark = before[1].htmlClassDark
           /\ isDark = before[1].isDark

\* C13 as stated: the detection callback runs only for a pending frame
\* request and at most once; until it has run neither mounted nor the
\* in-memory flag is set, and once the component is unmounted the callback
\* never runs and neither flag changes any more.
C13_DetectionOncePerMount ==
    /\ [](frame # "fired" => ~mounted /\ ~isDark)
    /\ [][/\ lastOp' = "frame" => frame = "pending" /\ frame' = "fired"
          /\ frame \in {"fired", "cancelled"} => frame' = frame
          /\ page = "closed" =>
                 /\ mounted' = mounted /\ isDark' = isDark
                 /\ frame # "fired" => frame' # "fired"]_vars

\* C13, amended: the detection callback runs only for a pending frame
\* request and at most once; until it has run neither mounted nor the
\* in-memory flag is set; once the component is unmounted neither flag
\* changes any more; and once the cleanup of the unmount has run no
\* request is pending, a cancelled request staying cancelled.
C13_CancelledByCleanup ==
    /\ [](frame # "fired" => ~mounted /\ ~isDark)
    /\ [](frame = "cancelled" => page = "closed")
    /\ []((page = "closed" /\ passiveEffects = <<>>) => frame # "pending")
    /\ [][/\ lastOp' = "frame" => frame = "pending" /\ frame' = "fired"
          /\ frame \in {"fired", "cancelled"} => frame' = frame
          /\ page = "closed" => mounted' = mounted /\ isDark' = isDark]_vars

\* The component was unmounted while its frame request was pending and
\* the cleanup has cancelled the request.
C13_Witness ==
    /\ lastOp = "passiveEffects"
    /\ lastArg = Some("ThemeToggle.cleanup")
    /\ page = "closed"
    /\ frame = "cancelled"
    /\ ~mounted
    /\ ~isDark

\* The frame was delivered after the unmount, before the cleanup had run:
\* the callback ran and set neither flag.
C13_WitnessLateFrame ==
    /\ lastOp = "frame"
    /\ page = "closed"
    /\ passiveEffects = <<"ThemeToggle.cleanup">>
    /\ frame = "fired"
    /\ ~mounted
    /\ ~isDark

(***************************************************************************)
(* Properties of the diagram renderer.                                     *)
(***************************************************************************)
\* The identifiers of the closed enumeration that name a drawing.
EnumeratedDiagrams == {"cache", "microservices", "cli", "logs", "auth", "pydown"}

\* The container shows the drawing of a diagram that has no image path.
InlineDrawingShown ==
    /\ DrawingRendered
    /\ selectedProjectDiagram # Null
    /\ ~Truthy(selectedProjectDiagram[1].imageSrc)

\* The drawing in the container, without the filter definitions.
ShownDrawing == Tail(querySelector(container[1], "svg")[1].kids)

\* A drawing that is the placeholder label and nothing else.
IsPlaceholder(drawing) ==
    /\ Len(drawing) = 1
    /\ drawing[1].tag = "text"
    /\ drawing[1].text = <<"[System Diagram Not Available]">>
    /\ drawing[1].kids = <<>>

\* C14: the drawing rendered for a diagram starts with the shared filter
\* definitions; for each of the six enumerated identifiers what follows is
\* non-empty, is not the placeholder and differs from what follows for
\* every other identifier; for any other identifier ("default" included)
\* what follows is exactly the placeholder label.
C14_RendererByIdentifier ==
    InlineDrawingShown =>
        LET type == selectedProjectDiagram[1].type
            svg == querySelector(container[1], "svg")
        IN /\ svg # Null
           /\ svg[1].tag = "svg"
           /\ svg[1].kids[1] = RoughFilter
           /\ IF type \in EnumeratedDiagrams
              THEN /\ ShownDrawing # <<>>
                   /\ ~IsPlaceholder(ShownDrawing)
                   /\ \A other \in (EnumeratedDiagrams \cup {"default", "queue"})
                                    \ {type} :
                          ShownDrawing # renderDiagram(other)
                   /\ \A i \in 1..Len(ShownDrawing) :
                          ShownDrawing[i].text # <<"[System Diagram Not Available]">>
              ELSE IsPlaceholder(ShownDrawing)

\* The export ran on the drawing of an identifier outside the enumeration,
\* which is not "default" either, and downloaded the placeholder.
C14_Witness ==
    /\ ExportedInline
    /\ InlineDrawingShown
    /\ selectedProjectDiagram[1].type \notin DiagramTypes
    /\ IsPlaceholder(ShownDrawing)
    /\ Len(browser.downloads) = 1

(***************************************************************************)
(* Properties of the persisted state.                                      *)
(***************************************************************************)
\* C15: the store holds at most the key "theme", with the value "light" or
\* "dark"; only a toggle changes the store, and what it changes is the
\* value under "theme", to the name of the theme it enters; no operation
\* removes a key.
C15_OnlyThemeKey ==
    /\ [](/\ DOMAIN localStorage \subseteq {"theme"}
          /\ \A k \in DOMAIN localStorage : localStorage[k] \in {"light", "dark"})
    /\ [][/\ DOMAIN localStorage \subseteq DOMAIN localStorage'
          /\ localStorage' # localStorage =>
                 /\ lastOp' = "toggle"
                 /\ storageMode = "ok"
                 /\ DOMAIN localStorage' = DOMAIN localStorage \cup {"theme"}
                 /\ localStorage'["theme"] = ThemeName(~isDark)
                 /\ \A k \in DOMAIN localStorage \ {"theme"} :
                        localStorage'[k] = localStorage[k]]_vars

\* A toggle stored "light" over a persisted "dark", after an export and
\* with overlays open.
C15_Witness ==
    /\ lastOp = "toggle"
    /\ pre.localStorage = [k \in {"theme"} |-> "dark"]
    /\ localStorage = [k \in {"theme"} |-> "light"]
    /\ selectedNote # Null
    /\ selectedProjectDiagram # Null
    /\ isCaseStudyOpen

(***************************************************************************)
(* Properties of the overlays' flags.                                      *)
(***************************************************************************)
\* C16: after selectDiagram the active diagram is the descriptor it was
\* called with, title, type and image path, and the diagram overlay is
\* visible; after closeDiagram no diagram is active and the overlay is not
\* visible; no other operation changes the active diagram.
C16_ActiveDiagram ==
    /\ [](lastOp = "selectDiagram" =>
              /\ lastArg \in {Some(d) : d \in CardDescriptors}
              /\ selectedProjectDiagram = lastArg
              /\ DiagramOverlayVisible)
    /\ [](lastOp = "closeDiagram" =>
              /\ selectedProjectDiagram = Null
              /\ ~DiagramOverlayVisible)
    /\ [][selectedProjectDiagram' # selectedProjectDiagram =>
              lastOp' \in {"selectDiagram", "closeDiagram"}]_vars

\* The auth diagram was selected while the PyDown diagram was active.
C16_Witness ==
    /\ lastOp = "selectDiagram"
    /\ pre.selectedProjectDiagram =
           Some(Descriptor("PyDown Architecture", "pydown",
                           Some("/diagrams/pydown.png")))
    /\ selectedProjectDiagram =
           Some(Descriptor("Auth Service Architecture", "auth", Null))
    /\ DiagramOverlayVisible

\* C17: after openDocument the document flag is true and after
\* closeDocument it is false, whatever it was before, so that calling
\* either a second time changes nothing; and the viewer renders nothing
\* exactly when the flag is false.
C17_DocumentFlag ==
    /\ lastOp = "openDocument" => isCaseStudyOpen
    /\ lastOp = "closeDocument" => ~isCaseStudyOpen
    /\ (lastOp \in {"openDocument", "closeDocument"} /\ before # Null) =>
           CurrentVisibility = Visibility(pre)
    /\ (DocumentViewer = Null) <=> ~isCaseStudyOpen

\* closeDocument was called twice in a row on an open document: the second
\* call found it closed and left it closed, and the viewer renders nothing.
C17_Witness ==
    /\ lastOp = "closeDocument"
    /\ before # Null
    /\ before[1].isCaseStudyOpen
    /\ ~pre.isCaseStudyOpen
    /\ ~isCaseStudyOpen
    /\ DocumentViewer = Null

\* C18: closeNote changes nothing but the selected note, selectDiagram and
\* closeDiagram nothing but the active diagram, openDocument and
\* closeDocument nothing but the document flag.
C18_FlagsIndependent ==
    /\ lastOp = "closeNote" =>
           /\ selectedProjectDiagram = pre.selectedProjectDiagram
           /\ isCaseStudyOpen = pre.isCaseStudyOpen
    /\ lastOp \in {"selectDiagram", "closeDiagram"} =>
           /\ selectedNote = pre.selectedNote
           /\ isCaseStudyOpen = pre.isCaseStudyOpen
    /\ lastOp \in {"openDocument", "closeDocument"} =>
           /\ selectedNote = pre.selectedNote
           /\ selectedProjectDiagram = pre.selectedProjectDiagram

\* With all three overlays open the diagram was closed, and the note and
\* the document stayed open.
C18_Witness ==
    /\ lastOp = "closeDiagram"
    /\ pre.selectedNote # Null
    /\ pre.selectedProjectDiagram # Null
    /\ pre.isCaseStudyOpen
    /\ selectedNote = pre.selectedNote
    /\ selectedProjectDiagram = Null
    /\ isCaseStudyOpen

(***************************************************************************)
(* Properties of the content registry and the document viewer.             *)
(***************************************************************************)
SectionVariants == {"text", "list", "experience", "code"}

\* The fields a section of a variant carries besides its tag.
VariantPayload(type) ==
    CASE type = "text" -> {"title", "content"}
      [] type = "list" -> {"title", "items"}
      [] type = "experience" -> {"title", "items"}
      [] type = "code" -> {"title", "content"}

ExperienceFields == {"role", "company", "duration", "details"}

\* C19: every section of a registry of the repository has one of the four
\* variant tags and the fields of its variant, and every entry of an
\* experience section has the fields role, company, duration and details.
C19_RegistryShape ==
    registry \in ShippedRegistries =>
        \A i \in 1..Len(registry.sections) :
            LET section == registry.sections[i]
            IN /\ section.type \in SectionVariants
               /\ VariantPayload(section.type) \subseteq DOMAIN section
               /\ section.type = "experience" =>
                      \A j \in 1..Len(section.items) :
                          ExperienceFields \subseteq DOMAIN section.items[j]

\* The positions of the registry's sections that have one of the four tags.
KnownSections == {i \in 1..Len(registry.sections) :
                     registry.sections[i].type \in SectionVariants}

\* The position of the k-th of them.
KnownSection(k) ==
    CHOOSE i \in KnownSections : Cardinality({j \in KnownSections : j < i}) = k - 1

\* The children of the viewer's content body: the blocks and the footer.
ViewerBody == DocumentViewer[1].kids[2].kids[2].kids

\* What a block must hold after its heading for a section.
BlockShowsSection(content, section) ==
    CASE section.type = "text" ->
             content.tag = "p" /\ content.text = TextChild(Prop(section, "content"))
      [] section.type = "list" ->
             /\ content.tag = "ul"
             /\ Len(content.kids) = Len(section.items)
             /\ \A j \in 1..Len(section.items) :
                    /\ content.kids[j].tag = "li"
                    /\ content.kids[j].text = <<section.items[j]>>
      [] section.type = "experience" ->
             /\ content.tag = "div"
             /\ Len(content.kids) = Len(section.items)
             /\ \A j \in 1..Len(section.items) :
                    /\ content.kids[j].kids[1].kids[1].tag = "h4"
                    /\ content.kids[j].kids[1].kids[1].text = <<section.items[j].role>>
                    /\ content.kids[j].kids[1].kids[2].text =
                           <<section.items[j].duration>>
                    /\ content.kids[j].kids[3].text = <<section.items[j].details>>
      [] section.type = "code" ->
             /\ content.tag = "div"
             /\ Len(content.kids) = 1
             /\ content.kids[1].tag = "pre"
             /\ content.kids[1].text = TextChild(Prop(section, "content"))

\* C20: an open viewer shows, before its footer, one block for each section
\* of the registry that has one of the four tags and none for any other
\* section, in the order of the registry, each block with the section's
\* title and the layout of its variant; and no operation changes the
\* registry.
C20_ViewerBlocks ==
    /\ [](isCaseStudyOpen =>
              /\ Len(ViewerBody) = Cardinality(KnownSections) + 1
              /\ ViewerBody[Len(ViewerBody)].tag # "section"
              /\ \A k \in 1..Cardinality(KnownSections) :
                     LET block == ViewerBody[k]
                         section == registry.sections[KnownSection(k)]
                     IN /\ block.tag = "section"
                        /\ block.attrs = << <<"key", ToString(KnownSection(k) - 1)>> >>
                        /\ Len(block.kids) = 2
                        /\ block.kids[1].tag = "h3"
                        /\ block.kids[1].text = <<section.title>>
                        /\ BlockShowsSection(block.kids[2], section))
    /\ [][registry' = registry]_vars

\* The viewer was opened on the registry that holds a section of an
\* unknown tag in second place: three blocks are shown, the second of
\* them for the registry's third section.
C20_Witness ==
    /\ lastOp = "openDocument"
    /\ isCaseStudyOpen
    /\ Len(registry.sections) = 4
    /\ registry.sections[2].type = "table"
    /\ Len(ViewerBody) = 4
    /\ ViewerBody[2].attrs = << <<"key", "2">> >>
    /\ ViewerBody[2].kids[2].tag = "p"

(***************************************************************************)
(* Properties of the project cards.                                        *)
(***************************************************************************)
\* The cards the page gives an onShowArchitecture callback.
ArchitectureCards == {"PyDown", "Terminal Controlled Blog", "Auth Service"}

\* C21: a card shows the "System Architecture" button exactly when it was
\* given a callback, which is so for the PyDown, Terminal Controlled Blog
\* and Auth Service cards only; a click on the button invokes the callback
\* once; and an active diagram is always the descriptor of one of these
\* three cards.
C21_ArchitectureAction ==
    /\ \A i \in 1..Len(ProjectCards) :
           /\ ShowsArchitectureButton(ProjectCards[i])
                  <=> ProjectCards[i].onShowArchitecture # Null
           /\ ShowsArchitectureButton(ProjectCards[i])
                  <=> ProjectCards[i].name \in ArchitectureCards
    /\ lastOp = "selectDiagram" =>
           /\ invoked = <<"onShowArchitecture">>
           /\ lastArg # Null
           /\ \E i \in 1..Len(ProjectCards) :
                  /\ ProjectCards[i].name \in ArchitectureCards
                  /\ lastArg = ProjectCards[i].onShowArchitecture
           /\ selectedProjectDiagram = lastArg
    /\ lastOp # "selectDiagram" => invoked = <<>>
    /\ selectedProjectDiagram # Null =>
           \E i \in 1..Len(ProjectCards) :
               /\ ProjectCards[i].name \in ArchitectureCards
               /\ selectedProjectDiagram = ProjectCards[i].onShowArchitecture

\* The button of the Terminal Controlled Blog card was clicked and its
\* callback, invoked once, made the card's diagram active.
C21_Witness ==
    /\ lastOp = "selectDiagram"
    /\ invoked = <<"onShowArchitecture">>
    /\ pre.selectedProjectDiagram = Null
    /\ selectedProjectDiagram # Null
    /\ selectedProjectDiagram[1].title = "Terminal Controlled Blog Architecture"

(***************************************************************************)
(* Properties of the page as the user reaches it.                          *)
(***************************************************************************)
NoOverlayOpen ==
    /\ selectedNote = Null
    /\ selectedProjectDiagram = Null
    /\ ~isCaseStudyOpen

\* C22: when Home has mounted no note and no diagram is selected and the
\* document flag is false, and a state with no overlay open is left only
\* by selectNote, selectDiagram or openDocument.
C22_StartsWithNoOverlay ==
    /\ [](lastOp = "mount" => NoOverlayOpen /\ page = "hydrated")
    /\ [][(NoOverlayOpen /\ ~NoOverlayOpen') =>
              lastOp' \in {"selectNote", "selectDiagram", "openDocument"}]_vars

\* After the mount the detection frame has run and no overlay is open.
C22_Witness ==
    /\ lastOp = "frame"
    /\ page = "hydrated"
    /\ NoOverlayOpen
    /\ ~NoteOverlayVisible
    /\ ~DiagramOverlayVisible
    /\ ~DocumentViewerVisible

\* C23: through the user interface the export runs only with a diagram
\* active and the diagram overlay shown, so that it never returns at its
\* first guard: it always triggers a download.
C23_ExportOnlyWithDiagram ==
    Exported =>
        /\ pre.selectedProjectDiagram # Null
        /\ selectedProjectDiagram # Null
        /\ DiagramOverlayVisible
        /\ browser.log # <<>>
        /\ Len(browser.downloads) = 1

\* The image of the PyDown diagram was exported from the diagram overlay.
C23_Witness ==
    /\ ExportedImage
    /\ DiagramOverlayVisible
    /\ pre.selectedProjectDiagram[1].type = "pydown"
    /\ Len(browser.downloads) = 1
    /\ browser.downloads[1].href = "/diagrams/pydown.png"

\* C24: while the active diagram has no image path the container holds the
\* drawing SystemDiagram renders for its type, which is "auth", and an
\* export then triggers one download; while it has an image path the
\* container holds the image and no drawing.
C24_ContainerDrawing ==
    /\ selectedProjectDiagram # Null =>
           LET diagram == selectedProjectDiagram[1]
           IN /\ container # Null
              /\ Len(container[1].kids) = 1
              /\ IF Truthy(diagram.imageSrc)
                 THEN /\ container[1].kids[1].tag = "img"
                      /\ container[1].kids[1].attrs[1] = <<"src", diagram.imageSrc[1]>>
                      /\ querySelector(container[1], "svg") = Null
                      /\ diagram.type \in {"pydown", "cli"}
                 ELSE /\ container[1].kids[1] = SystemDiagram(diagram.type)
                      /\ FindSvgElement = Some(SystemDiagram(diagram.type))
                      /\ diagram.type = "auth"
    /\ ExportedInline =>
           /\ Len(browser.downloads) = 1
           /\ browser.downloads[1].content.kind = "blob"

\* The Auth Service diagram was made active and the container holds the
\* "auth" drawing.
C24_Witness ==
    /\ lastOp = "selectDiagram"
    /\ selectedProjectDiagram = Some(Descriptor("Auth Service Architecture", "auth", Null))
    /\ FindSvgElement = Some(SystemDiagram("auth"))

(***************************************************************************)
(* ThemeToggle: the button and the detection frame.                        *)
(***************************************************************************)
\* ThemeToggle renders the button, which carries toggleTheme, when mounted
\* is true, and a placeholder without handler before.
ToggleInvocable == page = "hydrated" /\ mounted

\* C25: the toggle can be invoked only after the detection frame has run,
\* and whenever it can be invoked isDark equals the presence of the dark
\* class on the root element.
C25_ToggleSeesDetectedTheme ==
    /\ ToggleInvocable => frame = "fired"
    /\ lastOp = "toggle" => pre.isDark = pre.htmlClassDark
    /\ ToggleInvocable => isDark = htmlClassDark

\* The part of C25 about the placeholder: no toggle before the detection.
C25_NoToggleBeforeDetection ==
    /\ ToggleInvocable => frame = "fired"
    /\ lastOp = "toggle" => frame = "fired"

\* The part of C25 about the flag, with a storage that can be written.
C25_AgreesWithWritableStorage ==
    (storageMode = "ok" /\ ToggleInvocable) => isDark = htmlClassDark

(***************************************************************************)
(* RootLayout: failures inside the theme initialization script.            *)
(***************************************************************************)
\* One of the two reads of the script throws.
ScriptReadFails == storageMode = "blocked" \/ colorScheme = "unsupported"

\* C27: the theme initialization script ends without an error escaping
\* and writes nothing to storage; when the read of storage or of the
\* colour scheme fails, the dark class of the root element is as it was
\* before the script.
C27_ScriptSwallowsFailures ==
    lastOp = "themeInitScript" =>
        /\ ~threw
        /\ page = "ready"
        /\ localStorage = pre.localStorage
        /\ ScriptReadFails => htmlClassDark = pre.htmlClassDark

\* The script ran with "dark" stored and a matchMedia that throws: the
\* root element is still without the dark class.
C27_Witness ==
    /\ lastOp = "themeInitScript"
    /\ storageMode = "ok"
    /\ colorScheme = "unsupported"
    /\ localStorage = [k \in {"theme"} |-> "dark"]
    /\ ~htmlClassDark
    /\ ~threw

\* C26 as stated: a frame callback that ran while the component was
\* mounted makes mounted true, also for a component unmounted afterwards;
\* mounted is never set back to false; and when queued effects, requested
\* frames and queued state updates are eventually run a mounted page comes
\* to show the toggle button unless it is unmounted.
C26_FiredFrameSetsMounted ==
    /\ []((lastOp = "unmount" /\ frame = "fired") => mounted)
    /\ [][mounted => mounted']_vars
    /\ (page = "hydrated") ~> (ToggleInvocable \/ page = "closed")

\* C26, amended: a frame callback that runs while the component is mounted
\* queues setMounted(true), and mounted is true once React has rendered the
\* queued update; a component unmounted before that render keeps mounted
\* false; mounted is never set back to false; and when queued effects,
\* requested frames and queued state updates are eventually run a mounted
\* page comes to show the toggle button unless it is unmounted.
C26_ButtonEventuallyShown ==
    /\ []((frame = "fired" /\ page = "hydrated") =>
              \/ mounted
              \/ /\ stateUpdates # <<>>
                 /\ Head(stateUpdates) = StateUpdate("setMounted", TRUE))
    /\ []((lastOp = "render") => (mounted /\ stateUpdates = <<>>))
    /\ [][(page' = "closed" /\ ~mounted) => ~mounted']_vars
    /\ [][mounted => mounted']_vars
    /\ (page = "hydrated") ~> (ToggleInvocable \/ page = "closed")

\* The frame has run, React has rendered its updates and the button is
\* still shown after a later click on it.
C26_Witness ==
    /\ frame = "fired"
    /\ ToggleInvocable
    /\ stateUpdates = <<>>
    /\ lastOp = "toggle"
    /\ pre.isDark # isDark

\* The frame callback has run on the mounted page and React has not yet
\* rendered the updates it queued: the placeholder is still shown.
C26_WitnessQueued ==
    /\ lastOp = "frame"
    /\ page = "hydrated"
    /\ ~mounted
    /\ stateUpdates = <<StateUpdate("setMounted", TRUE), StateUpdate("setIsDark", TRUE)>>

\* The component was unmounted between the frame callback and the render
\* of its updates: mounted stays false.
C26_WitnessUnmountedInGap ==
    /\ lastOp = "unmount"
    /\ frame = "fired"
    /\ ~mounted
    /\ stateUpdates = <<>>

(***************************************************************************)
(* Properties of Modal.                                                    *)
(***************************************************************************)
\* The keydown listeners on window that the Modal registered.
ModalListeners == SelectSeq(windowKeydown, LAMBDA l : l.owner = "Modal")

\* C28 as stated: while the Modal is mounted exactly one of its keydown
\* listeners is registered on window, the one of the last run of its
\* effect with the current onClose; while it is not mounted none is
\* registered.
C28_OneKeydownListener ==
    /\ modal.mounted =>
           /\ Len(ModalListeners) = 1
           /\ Some(ModalListeners[1].id) = modal.handleEsc
           /\ ModalListeners[1].onClose = modal.onClose
    /\ ~modal.mounted => ModalListeners = <<>>

\* C28, amended: at most one keydown listener of the Modal is registered
\* on window at any time, the handleEsc of the last run of its effect;
\* once the effects React has queued have run, exactly one is registered
\* while the Modal is mounted, with the current onClose, and none while it
\* is not mounted.
C28_OneListenerOnceEffectsRan ==
    /\ Len(ModalListeners) <= 1
    /\ ModalListeners # <<>> => Some(ModalListeners[1].id) = modal.handleEsc
    /\ ModalListeners = <<>> => modal.handleEsc = Null
    /\ passiveEffects = <<>> =>
           /\ modal.mounted =>
                  /\ Len(ModalListeners) = 1
                  /\ ModalListeners[1].onClose = modal.onClose
           /\ ~modal.mounted => ModalListeners = <<>>

\* The Modal was rendered with another onClose after its effect had run
\* and the queued effect has run: next to the other code's listener window
\* has the listener of the new run.
C28_Witness ==
    /\ lastOp = "passiveEffects"
    /\ passiveEffects = <<>>
    /\ modal.mounted
    /\ modal.effectRuns = 2
    /\ windowKeydown =
           <<OtherListener, [id |-> 2, owner |-> "Modal", onClose |-> modal.onClose]>>

\* The Modal was unmounted after two runs of its effect, the cleanup has
\* run and none of its listeners is left.
C28_WitnessUnmounted ==
    /\ lastOp = "passiveEffects"
    /\ lastArg = Some("Modal.cleanup")
    /\ ~modal.mounted
    /\ modal.effectRuns = 2
    /\ windowKeydown = <<OtherListener>>

\* The onClose callbacks among the callbacks the last operation invoked.
OnCloseCalls == SelectSeq(invoked, LAMBDA c : c \in OnCloseCallbacks)

\* C29 as stated: a keydown while the Modal is mounted invokes its current
\* onClose once when the key is "Escape" and not at all for another key,
\* with isOpen true or false; while it is not mounted no onClose is
\* invoked.
C29_EscapeInvokesOnClose ==
    lastOp = "keydown" =>
        OnCloseCalls = IF modal.mounted /\ lastArg = Some("Escape")
                       THEN <<modal.onClose>>
                       ELSE <<>>

\* C29, amended: a keydown invokes an onClose at most once, and never for
\* a key other than "Escape"; once the effects React has queued have run,
\* "Escape" invokes the current onClose exactly once while the Modal is
\* mounted, with isOpen true or false, and nothing while it is not mounted.
C29_EscapeOnceEffectsRan ==
    lastOp = "keydown" =>
        /\ Len(OnCloseCalls) <= 1
        /\ lastArg # Some("Escape") => OnCloseCalls = <<>>
        /\ passiveEffects = <<>> =>
               OnCloseCalls = IF modal.mounted /\ lastArg = Some("Escape")
                              THEN <<modal.onClose>>
                              ELSE <<>>

\* Escape was pressed while the Modal was mounted with isOpen false and no
\* effect queued: nothing is rendered, and onClose was invoked once.
C29_Witness ==
    /\ lastOp = "keydown"
    /\ lastArg = Some("Escape")
    /\ passiveEffects = <<>>
    /\ modal.mounted
    /\ ~modal.isOpen
    /\ ModalView(modal.isOpen, modal.onClose) = Null
    /\ invoked = <<"otherKeydown", modal.onClose>>

\* Escape was pressed while the Modal was mounted with isOpen true.
C29_WitnessOpen ==
    /\ lastOp = "keydown"
    /\ lastArg = Some("Escape")
    /\ passiveEffects = <<>>
    /\ modal.mounted
    /\ modal.isOpen
    /\ invoked = <<modal.onClose>>

\* Escape was pressed after a render with another onClose, before the
\* queued effect had run: the onClose of the render before was invoked.
C29_WitnessStaleOnClose ==
    /\ lastOp = "keydown"
    /\ lastArg = Some("Escape")
    /\ passiveEffects = <<"Modal.effect">>
    /\ modal.mounted
    /\ Len(OnCloseCalls) = 1
    /\ OnCloseCalls[1] # modal.onClose

=============================================================================
